---- MODULE Spec2Model ----
(***************************************************************************)
(* A model of elmesque: the Element layout tree (element.rs), its draw     *)
(* traversal, and the Form drawing it hands Collages to (form.rs).         *)
(*                                                                         *)
(* Numbers.  Element sizes are i32 pixels.  Every f64 length that the      *)
(* traversal computes is a multiple of one half (it halves i32 sizes), so  *)
(* transforms carry their translation in HALF-PIXELS: the integer n stands *)
(* for the f64 value n / 2.  An f32 (opacities, alphas, the angles and the *)
(* channels of colours) is a dyadic rational n / 2^e, and every f32 sum,   *)
(* difference, product and quotient is rounded to 24 bits.  Where the      *)
(* program casts an f32 or f64 result to a whole number (resizing, the     *)
(* crop conversion), the model rounds every step as the hardware does.     *)
(***************************************************************************)
EXTENDS Integers, Sequences, FiniteSets, TLC

VARIABLES
    stack,      \* the Elements the caller has built so far (last = newest)
    last,       \* the builder call made last: its name, arguments and result
    root,       \* the Element handed to Element::draw
    renderer,   \* the Renderer it is drawn with
    log         \* what the draw traversal did, in order

vars == <<stack, last, root, renderer, log>>

----------------------------------------------------------------------------
(* Bounds of the model *)

MaxNodes == 3       \* nodes of the Element trees the caller builds
MaxDrawNodes == 4   \* nodes of the Element trees the caller draws
MaxDrawDepth == 3   \* their depth
MaxDim == 4         \* the widths and heights the caller asks for
MaxUnits == 2       \* units of the Texts the caller builds
MaxFormCost == 3    \* builder calls that went into the Form the caller draws

----------------------------------------------------------------------------
(* f32 values n / 2^e, n odd or e = 0 *)

RECURSIVE Dy(_, _)
Dy(n, e) ==
    IF n = 0 THEN [n |-> 0, e |-> 0]
    ELSE IF e > 0 /\ n % 2 = 0 THEN Dy(n \div 2, e - 1)
    ELSE [n |-> n, e |-> e]

One == Dy(1, 0)
Half == Dy(1, 1)
Quarter == Dy(1, 2)

----------------------------------------------------------------------------
(* Option<T>: None is <<>>, Some(v) is <<v>> *)

None == <<>>
Some(v) == <<v>>

\* Iterator::max over a sequence of i32
iter_max(s) ==
    IF s = <<>> THEN None
    ELSE Some(CHOOSE m \in {s[i] : i \in DOMAIN s} :
                  \A i \in DOMAIN s : s[i] <= m)

\* std::cmp::max
cmp_max(a, b) == IF a >= b THEN a ELSE b

\* Iterator::fold(0, |total, x| total + x)
RECURSIVE fold_sum(_)
fold_sum(s) == IF s = <<>> THEN 0 ELSE Head(s) + fold_sum(Tail(s))

\* A builder's outcome: a value, or a panic (Option::unwrap on None).
Ok(v) == [panicked |-> FALSE, value |-> v]

----------------------------------------------------------------------------
(* Natural numbers of any size: the digits in base 2^10, lowest first,     *)
(* without leading zero digits; 0 is <<>>                                   *)

RECURSIVE Pow2(_)
Pow2(k) == IF k = 0 THEN 1 ELSE 2 * Pow2(k - 1)

RECURSIVE BitLen(_)
BitLen(n) == IF n = 0 THEN 0 ELSE 1 + BitLen(n \div 2)

Digit == 2 ^ 10
DigitBits == BitLen(Digit) - 1

RECURSIVE BigFrom(_)
BigFrom(n) == IF n = 0 THEN <<>> ELSE <<n % Digit>> \o BigFrom(n \div Digit)

RECURSIVE BigTo(_)
BigTo(x) == IF x = <<>> THEN 0 ELSE x[1] + Digit * BigTo(Tail(x))

\* a digit in front of the higher digits
BigCons(d, x) == IF d = 0 /\ x = <<>> THEN <<>> ELSE <<d>> \o x

RECURSIVE BigAddC(_, _, _)
BigAddC(x, y, carry) ==
    IF x = <<>> /\ y = <<>> THEN BigFrom(carry)
    ELSE LET a == IF x = <<>> THEN 0 ELSE x[1]
             b == IF y = <<>> THEN 0 ELSE y[1]
             t == a + b + carry
         IN  BigCons(t % Digit,
                     BigAddC(IF x = <<>> THEN x ELSE Tail(x),
                             IF y = <<>> THEN y ELSE Tail(y), t \div Digit))
BigAdd(x, y) == BigAddC(x, y, 0)

\* x - y - borrow for x >= y + borrow
RECURSIVE BigSubB(_, _, _)
BigSubB(x, y, borrow) ==
    IF x = <<>> THEN <<>>
    ELSE LET b == IF y = <<>> THEN 0 ELSE y[1]
             t == x[1] - b - borrow
         IN  BigCons(t % Digit,
                     BigSubB(Tail(x), IF y = <<>> THEN y ELSE Tail(y),
                             IF t < 0 THEN 1 ELSE 0))
BigSub(x, y) == BigSubB(x, y, 0)

\* -1, 0, 1 as x is below, equal to, above y
RECURSIVE BigCmpFrom(_, _, _)
BigCmpFrom(x, y, i) ==
    IF i = 0 THEN 0
    ELSE IF x[i] < y[i] THEN -1
    ELSE IF x[i] > y[i] THEN 1
    ELSE BigCmpFrom(x, y, i - 1)
BigCmp(x, y) ==
    IF Len(x) < Len(y) THEN -1
    ELSE IF Len(x) > Len(y) THEN 1
    ELSE BigCmpFrom(x, y, Len(x))

\* x * n + carry for an n below 2^20
RECURSIVE BigMulSmall(_, _, _)
BigMulSmall(x, n, carry) ==
    IF x = <<>> THEN BigFrom(carry)
    ELSE LET t == x[1] * n + carry
         IN  BigCons(t % Digit, BigMulSmall(Tail(x), n, t \div Digit))

RECURSIVE BigMul(_, _)
BigMul(x, y) ==
    IF x = <<>> \/ y = <<>> THEN <<>>
    ELSE BigAdd(BigMulSmall(x, y[1], 0), BigCons(0, BigMul(x, Tail(y))))

\* half a digit
HalfDigit == 2 ^ 5

\* quotient and remainder of r * HalfDigit + h by d, for r below d
BigDivHalf(r, h, d) ==
    [q |-> (r * HalfDigit + h) \div d, r |-> (r * HalfDigit + h) % d]

\* one digit below the quotient hi.q and the remainder hi.r, taken down in
\* two halves
BigDivDigit(hi, digit, d) ==
    LET top == BigDivHalf(hi.r, digit \div HalfDigit, d)
        low == BigDivHalf(top.r, digit % HalfDigit, d)
    IN  [q |-> BigCons(top.q * HalfDigit + low.q, hi.q), r |-> low.r]

\* quotient and remainder of x by a d below 2^26
RECURSIVE BigDivRem(_, _)
BigDivRem(x, d) ==
    IF x = <<>> THEN [q |-> <<>>, r |-> 0]
    ELSE BigDivDigit(BigDivRem(Tail(x), d), x[1], d)

\* n zero digits below the digits of x
BigShlDigits(x, n) == IF x = <<>> THEN x ELSE [i \in 1..n |-> 0] \o x

BigShl(x, k) ==
    IF k = 0 THEN x
    ELSE BigShlDigits(BigMulSmall(x, Pow2(k % DigitBits), 0), k \div DigitBits)

BigShr(x, k) ==
    LET n == k \div DigitBits
    IN  IF k = 0 THEN x
        ELSE IF n >= Len(x) THEN <<>>
        ELSE BigDivRem(SubSeq(x, n + 1, Len(x)), Pow2(k % DigitBits)).q

BigBitLen(x) ==
    IF x = <<>> THEN 0 ELSE DigitBits * (Len(x) - 1) + BitLen(x[Len(x)])

\* bit i of x, bit 0 the lowest
BigBit(x, i) ==
    LET l == i \div DigitBits + 1
    IN  IF l > Len(x) THEN 0 ELSE (x[l] \div Pow2(i % DigitBits)) % 2

\* the k lowest bits of x are all 0
BigLowZero(x, k) == BigShl(BigShr(x, k), k) = x

\* the number of 0 bits below the lowest 1 bit of an x above 0
RECURSIVE LowZeros(_)
LowZeros(n) == IF n % 2 = 1 THEN 0 ELSE 1 + LowZeros(n \div 2)
RECURSIVE BigLowZeros(_)
BigLowZeros(x) ==
    IF x[1] = 0 THEN DigitBits + BigLowZeros(Tail(x)) ELSE LowZeros(x[1])

----------------------------------------------------------------------------
(* IEEE 754 binary floating point, round to nearest, ties to even.  A      *)
(* float is sg * m * 2^e with sg 1 or -1, m odd (or m = 0, e = 0, sg = 1); *)
(* p is the precision in bits: 24 for f32, 53 for f64.                      *)

\* sg * m * 2^e for an m above 0 with z zero bits below its lowest 1 bit
FlOdd(sg, m, e, z) == [sg |-> sg, m |-> BigShr(m, z), e |-> e + z]

Fl(sg, m, e) ==
    IF m = <<>> THEN [sg |-> 1, m |-> <<>>, e |-> 0]
    ELSE IF m[1] % 2 = 1 THEN [sg |-> sg, m |-> m, e |-> e]
    ELSE FlOdd(sg, m, e, BigLowZeros(m))

\* m without its g lowest bits, which is kept, rounded by what was cut off:
\* up if that is more than one half, or one half and kept is odd
FlNearest(m, sticky, g, kept) ==
    IF /\ BigBit(m, g - 1) = 1
       /\ (sticky \/ ~BigLowZero(m, g - 1) \/ BigBit(kept, 0) = 1)
    THEN BigAdd(kept, <<1>>)
    ELSE kept

\* the same for an m that is g bits longer than the precision
FlCut(sg, m, sticky, e, g) ==
    IF g <= 0 THEN Fl(sg, m, e)
    ELSE Fl(sg, FlNearest(m, sticky, g, BigShr(m, g)), e + g)

\* sg * (m + f) * 2^e rounded to p bits, where 0 < f < 1 if sticky and f = 0
\* if not; an m of no more digits than p bits hold needs no rounding
FlRoundTo(p, sg, m, sticky, e) ==
    IF Len(m) * DigitBits <= p /\ ~sticky THEN Fl(sg, m, e)
    ELSE FlCut(sg, m, sticky, e, BigBitLen(m) - p)

\* the precisions of f32 and f64
F32 == 24
F64 == 53

Sign(n) == IF n < 0 THEN -1 ELSE 1
Mag(n) == IF n < 0 THEN 0 - n ELSE n

\* `n as f32`, `n as f64` on an i32, and the same on n / 2
FlFromInt(p, n) == FlRoundTo(p, Sign(n), BigFrom(Mag(n)), FALSE, 0)
FlFromHalves(p, n) == FlRoundTo(p, Sign(n), BigFrom(Mag(n)), FALSE, -1)

FlNeg(a) == IF a.m = <<>> THEN a ELSE [a EXCEPT !.sg = 0 - a.sg]

\* a * 2^k for an a that is not 0: nothing to round
FlScaled(sg, a, k) == [sg |-> sg, m |-> a.m, e |-> a.e + k]

\* a * b; by a power of two the product is the other factor with another
\* exponent
FlMul(p, a, b) ==
    IF a.m = <<>> THEN a
    ELSE IF b.m = <<>> THEN b
    ELSE IF b.m = <<1>> THEN FlScaled(a.sg * b.sg, a, b.e)
    ELSE IF a.m = <<1>> THEN FlScaled(a.sg * b.sg, b, a.e)
    ELSE FlRoundTo(p, a.sg * b.sg, BigMul(a.m, b.m), FALSE, a.e + b.e)

\* the quotient qr.q with remainder qr.r, in units of 2^e
FlQuotient(p, sg, qr, e) == FlRoundTo(p, sg, qr.q, qr.r # 0, e)

\* m * 2^e / d with m moved up by s bits, enough for the quotient to have
\* two bits more than the precision
FlDivShifted(p, sg, m, e, d, s) ==
    FlQuotient(p, sg, BigDivRem(BigShl(m, s), d), e - s)

FlDivBy(p, sg, m, e, d) ==
    FlDivShifted(p, sg, m, e, d, cmp_max(0, p + 2 + BitLen(d) - BigBitLen(m)))

\* a / b for a b that is not 0 and whose m is below 2^26
FlDiv(p, a, b) ==
    IF a.m = <<>> THEN a
    ELSE IF b.m = <<1>> THEN FlScaled(a.sg * b.sg, a, 0 - b.e)
    ELSE FlDivBy(p, a.sg * b.sg, a.m, a.e - b.e, BigTo(b.m))

\* asg * x * 2^e + bsg * y * 2^e, c telling how x compares with y
FlSum(p, asg, bsg, x, y, c, e) ==
    FlRoundTo(p, IF asg = bsg \/ c > 0 THEN asg ELSE bsg,
              IF asg = bsg THEN BigAdd(x, y)
              ELSE IF c > 0 THEN BigSub(x, y) ELSE BigSub(y, x),
              FALSE, e)

FlAligned(p, asg, bsg, x, y, e) == FlSum(p, asg, bsg, x, y, BigCmp(x, y), e)

FlAddAt(p, a, b, e) ==
    FlAligned(p, a.sg, b.sg, BigShl(a.m, a.e - e), BigShl(b.m, b.e - e), e)

FlAdd(p, a, b) ==
    IF b.m = <<>> THEN a
    ELSE IF a.m = <<>> THEN b
    ELSE FlAddAt(p, a, b, IF a.e < b.e THEN a.e ELSE b.e)

FlSub(p, a, b) == FlAdd(p, a, FlNeg(b))

\* `as i32`: towards zero
FlTrunc(a) ==
    a.sg * BigTo(IF a.e >= 0 THEN BigShl(a.m, a.e) ELSE BigShr(a.m, 0 - a.e))

\* f32::round then `as i32`: to the nearest integer, halves away from zero
FlRound(a) ==
    a.sg * BigTo(IF a.e >= 0 THEN BigShl(a.m, a.e)
                 ELSE BigShr(BigAdd(a.m, BigShl(<<1>>, 0 - a.e - 1)), 0 - a.e))

----------------------------------------------------------------------------
(* Whole-number casts of exact quotients *)

\* f32::round of num / den, den > 0: to the nearest integer, halves away
\* from zero
RoundDiv(num, den) ==
    IF num >= 0 THEN (2 * num + den) \div (2 * den)
    ELSE 0 - ((2 * (0 - num) + den) \div (2 * den))

\* the quotient of num / den on i32, den > 0: towards zero
TruncDiv(num, den) ==
    IF num >= 0 THEN num \div den ELSE 0 - ((0 - num) \div den)

----------------------------------------------------------------------------
(* f32 arithmetic.  An f32 is n / 2^e as Dy gives it, with n below 2^24 in *)
(* size, or NaN; every result is rounded as the hardware rounds it: to 24   *)
(* bits, to the nearest, a tie to the even one.                             *)

NaN == [n |-> 0, e |-> 0 - 1]
IsNaN(a) == a.e < 0

\* `i as f32` for an i32 below 2^24 in size
FInt(i) == [n |-> i, e |-> 0]

\* the f32 that is n * 2^x
FValue(n, x) == IF x >= 0 THEN [n |-> n * Pow2(x), e |-> 0] ELSE Dy(n, 0 - x)

\* the number of zero bits at the low end of n
RECURSIVE Twos(_)
Twos(n) == IF n = 0 \/ n % 2 = 1 THEN 0 ELSE 1 + Twos(n \div 2)

\* an f32 as sg * m * 2^x with m odd, and the place above its highest bit
FOdd(sg, n, t, e) == [sg |-> sg, m |-> n \div Pow2(t), x |-> t - e]
Parts(a) == FOdd(Sign(a.n), Mag(a.n), Twos(Mag(a.n)), a.e)
Place(a) == BitLen(a.m) + a.x

\* sg * (q + r / (2 * half)) * 2^x to the nearest q, where lost tells that
\* bits below r were dropped
FRoundCut(sg, q, r, half, x, lost) ==
    FValue(sg * (q + IF r > half \/ (r = half /\ (lost \/ q % 2 = 1))
                     THEN 1 ELSE 0), x)

\* sg * m * 2^x as an f32 for m below 2^31, the k bits m has above F32 cut
\* off; where bits were lost below m, k is above 1
FRoundAt(sg, m, x, k, lost) ==
    IF k <= 0 THEN FValue(sg * m, x)
    ELSE FRoundCut(sg, m \div Pow2(k), m % Pow2(k), Pow2(k - 1), x + k, lost)

FRoundTo(sg, m, x, lost) == FRoundAt(sg, m, x, BitLen(m) - F32, lost)

\* a sum as a number with a sign, and the same where bits of a term of sign
\* sg were lost below it
FSum(sum) == [sg |-> Sign(sum), m |-> Mag(sum), lost |-> FALSE]
FSumLost(sum, sg) ==
    [sg |-> Sign(sum), lost |-> TRUE,
     m |-> IF Sign(sum) = sg THEN Mag(sum) ELSE Mag(sum) - 1]

\* h + lo, where lo ends d bits below h
FAddShift(h, lo, d) ==
    IF d <= 0 THEN FSum(h + lo.sg * lo.m * Pow2(0 - d))
    ELSE FSumLost(h + lo.sg * (IF d > F32 THEN 0 ELSE lo.m \div Pow2(d)),
                  lo.sg)

FAddRound(sum, x) == FRoundTo(sum.sg, sum.m, x, sum.lost)

\* hi + lo, hi the one of the higher place: hi is taken to F32 + 6 bits
FAddAt(hi, lo, g) ==
    FAddRound(FAddShift(hi.sg * hi.m * Pow2(g), lo, hi.x - g - lo.x), hi.x - g)

FAddParts(ab) == FAddAt(ab[1], ab[2], F32 + 6 - BitLen(ab[1].m))

FByPlace(a, b) == IF Place(a) >= Place(b) THEN <<a, b>> ELSE <<b, a>>

FAdd(a, b) ==
    IF IsNaN(a) \/ IsNaN(b) THEN NaN
    ELSE IF a.n = 0 THEN b
    ELSE IF b.n = 0 THEN a
    ELSE FAddParts(FByPlace(Parts(a), Parts(b)))

FNeg(a) == [a EXCEPT !.n = 0 - a.n]
FSub(a, b) == FAdd(a, FNeg(b))

\* the product of two numbers below 2^24, from the products of their halves
\* of 12 bits: hh * 2^24 + mid * 2^12 + ll is high * 2^24 + low
HalfWord == 2 ^ 12

\* high * 2^24 + low, moved s bits up, without its lowest 24 bits
FMulTop(high, low, s) ==
    IF s >= F32
    THEN [m |-> high * Pow2(s) + low * Pow2(s - F32), lost |-> FALSE]
    ELSE [m |-> high * Pow2(s) + (low \div Pow2(F32 - s)),
          lost |-> (low % Pow2(F32 - s)) # 0]

FMulRound(sg, top, x) == FRoundTo(sg, top.m, x, top.lost)

FMulJoin(sg, high, low, x, h) ==
    FMulRound(sg,
              IF h = 0 THEN [m |-> low, lost |-> FALSE]
              ELSE FMulTop(high, low, F32 + 6 - h),
              IF h = 0 THEN x ELSE x + h - 6)

FMulCarry(sg, high, low, x) == FMulJoin(sg, high, low, x, BitLen(high))

FMulSum(sg, hh, u, ll, x) ==
    FMulCarry(sg, hh + (u \div HalfWord),
              (u % HalfWord) * HalfWord + (ll % HalfWord), x)

FMulHalves(sg, a1, a0, b1, b0, x) ==
    FMulSum(sg, a1 * b1, a1 * b0 + a0 * b1 + ((a0 * b0) \div HalfWord),
            a0 * b0, x)

FMulParts(a, b) ==
    FMulHalves(a.sg * b.sg, a.m \div HalfWord, a.m % HalfWord,
               b.m \div HalfWord, b.m % HalfWord, a.x + b.x)

FMul(a, b) ==
    IF IsNaN(a) \/ IsNaN(b) THEN NaN
    ELSE IF a.n = 0 \/ b.n = 0 THEN FInt(0)
    ELSE FMulParts(Parts(a), Parts(b))

\* k more bits of the quotient q with remainder r of a division by d
RECURSIVE FDivBits(_, _, _, _)
FDivBits(q, r, d, k) ==
    IF k = 0 THEN [q |-> q, r |-> r]
    ELSE IF 2 * r >= d THEN FDivBits(2 * q + 1, 2 * r - d, d, k - 1)
    ELSE FDivBits(2 * q, 2 * r, d, k - 1)

FDivRound(sg, qr, x) == FRoundTo(sg, qr.q, x, qr.r # 0)

\* a quotient of F32 + 2 bits or one more or less
FDivAt(a, b, k) ==
    FDivRound(a.sg * b.sg, FDivBits(a.m \div b.m, a.m % b.m, b.m, k),
              a.x - b.x - k)

FDivParts(a, b) == FDivAt(a, b, F32 + 3 + BitLen(b.m) - BitLen(a.m))

\* a / b: 0.0 / 0.0 is NaN; no other division by zero is taken
FDiv(a, b) ==
    IF IsNaN(a) \/ IsNaN(b) \/ b.n = 0 THEN NaN
    ELSE IF a.n = 0 THEN FInt(0)
    ELSE FDivParts(Parts(a), Parts(b))

\* comparisons with NaN are false; a - b has the sign of the exact
\* difference
FEq(a, b) == ~IsNaN(a) /\ ~IsNaN(b) /\ a = b
FLt(a, b) == ~IsNaN(a) /\ ~IsNaN(b) /\ FSub(a, b).n < 0
FLe(a, b) == ~IsNaN(a) /\ ~IsNaN(b) /\ FSub(a, b).n <= 0

FAbs(a) == IF IsNaN(a) THEN NaN ELSE [a EXCEPT !.n = Mag(a.n)]

\* f32::floor as i32, for a number
FFloor(a) ==
    IF a.e > 30 THEN (IF a.n < 0 THEN 0 - 1 ELSE 0) ELSE a.n \div Pow2(a.e)

\* f32::floor
Floor(a) == IF IsNaN(a) THEN NaN ELSE FInt(FFloor(a))

\* f32::round: to the nearest integer, halves away from zero
FRound(a) ==
    IF IsNaN(a) THEN NaN
    ELSE IF a.e > 28 THEN FInt(0)
    ELSE FInt(RoundDiv(a.n, Pow2(a.e)))

\* an f32 as the log of a draw holds it: a whole number is the integer
Whole(a) == IF a.e = 0 THEN a.n ELSE a

\* std::f32::consts::PI
PI == [n |-> 13176795, e |-> 22]

----------------------------------------------------------------------------
(* Colours: Color::Rgba(r, g, b, a) *)

rgba(r, g, b, a) == [r |-> r, g |-> g, b |-> b, a |-> a]
black == rgba(0, 0, 0, One)
blue == rgba(52, 101, 164, One)
red == rgba(204, 0, 0, One)
white == rgba(255, 255, 255, One)

----------------------------------------------------------------------------
(* Position, Direction, Prim, Properties, Element *)

Directions == {"Up", "Down", "Left", "Right", "In", "Out"}
up == "Up"
down == "Down"
left == "Left"
right == "Right"
inward == "In"
outward == "Out"

Threes == {"P", "Z", "N"}

\* Pos::Absolute(i32) in pixels, Pos::Relative(f32) in half units (v / 2)
absolute(i) == [kind |-> "Absolute", v |-> i]
relative(f2) == [kind |-> "Relative", v |-> f2]

p(h, v, x, y) == [horizontal |-> h, vertical |-> v, x |-> x, y |-> y]

middle == p("Z", "Z", relative(1), relative(1))
top_left == p("N", "P", absolute(0), absolute(0))
top_right == p("P", "P", absolute(0), absolute(0))
bottom_left == p("N", "N", absolute(0), absolute(0))
bottom_right == p("P", "N", absolute(0), absolute(0))
mid_left == p("N", "Z", absolute(0), relative(1))
mid_right == p("P", "Z", absolute(0), relative(1))
mid_top == p("Z", "P", relative(1), absolute(0))
mid_bottom == p("Z", "N", relative(1), absolute(0))

middle_at(x, y) == p("Z", "Z", x, y)
top_left_at(x, y) == p("N", "P", x, y)
top_right_at(x, y) == p("P", "P", x, y)
bottom_left_at(x, y) == p("N", "N", x, y)
bottom_right_at(x, y) == p("P", "N", x, y)
mid_left_at(x, y) == p("N", "Z", x, y)
mid_right_at(x, y) == p("P", "Z", x, y)
mid_top_at(x, y) == p("Z", "P", x, y)
mid_bottom_at(x, y) == p("Z", "N", x, y)

\* The enum Prim, as one record shape; the fields a variant lacks are blank.
Prim(kind, w, h, pos, dir, elements, forms, color) ==
    [kind |-> kind, w |-> w, h |-> h, pos |-> pos, dir |-> dir,
     elements |-> elements, forms |-> forms, color |-> color]

NoPos == p("Z", "Z", absolute(0), absolute(0))

PrimSpacer == Prim("Spacer", 0, 0, NoPos, "", <<>>, <<>>, black)
PrimImage(w, h) == Prim("Image", w, h, NoPos, "", <<>>, <<>>, black)
PrimContainer(pos, e) == Prim("Container", 0, 0, pos, "", <<e>>, <<>>, black)
PrimFlow(dir, es) == Prim("Flow", 0, 0, NoPos, dir, es, <<>>, black)
PrimCollage(w, h, forms) == Prim("Collage", w, h, NoPos, "", <<>>, forms, black)
PrimCleared(color, e) == Prim("Cleared", 0, 0, NoPos, "", <<e>>, <<>>, color)

new_element(w, h, element) ==
    [props |-> [width |-> w, height |-> h, opacity |-> One,
                color |-> None, crop |-> None],
     element |-> element]

get_width(e) == e.props.width
get_height(e) == e.props.height
get_size(e) == <<e.props.width, e.props.height>>

spacer(w, h) == new_element(w, h, PrimSpacer)
empty == spacer(0, 0)
image(w, h) == new_element(w, h, PrimImage(w, h))
collage(w, h, forms) == new_element(w, h, PrimCollage(w, h, forms))

opacity(self, o) == [self EXCEPT !.props.opacity = o]
color(self, c) == [self EXCEPT !.props.color = Some(c)]
crop(self, x, y, w, h) == [self EXCEPT !.props.crop = Some(<<x, y, w, h>>)]
container(self, w, h, pos) == new_element(w, h, PrimContainer(pos, self))
clear(self, c) ==
    new_element(get_width(self), get_height(self), PrimCleared(c, self))

\* width with the quotient cut off instead of rounded
width_truncated(self, new_width) ==
    IF self.element.kind \in {"Image", "Collage"}
    THEN [self EXCEPT !.props.height =
              (self.element.h * new_width) \div self.element.w]
    ELSE self

\* (a as f32 / b as f32 * n as f32).round() as i32 for a b that is not 0:
\* the quotient is rounded to f32, then the product, then f32::round
scaled_side(a, b, n) ==
    FlRound(FlMul(F32, FlDiv(F32, FlFromInt(F32, a), FlFromInt(F32, b)),
                  FlFromInt(F32, n)))

\* element.rs 90-102: (h as f32 / w as f32 * new_width as f32).round() as i32
\* for the w and h of the Prim, which are not 0
width(self, new_width) ==
    IF self.element.kind \in {"Image", "Collage"}
    THEN [self EXCEPT !.props.height =
              scaled_side(self.element.h, self.element.w, new_width)]
    ELSE self

\* element.rs 106-118
height(self, new_height) ==
    IF self.element.kind \in {"Image", "Collage"}
    THEN [self EXCEPT !.props.width =
              scaled_side(self.element.w, self.element.h, new_height)]
    ELSE self

\* element.rs 122-124
size(self, new_w, new_h) == width(height(self, new_h), new_w)

above_swapped(self, other) ==
    new_element(cmp_max(get_width(self), get_width(other)),
                get_height(self) + get_height(other),
                PrimFlow(down, <<other, self>>))

above(self, other) ==
    new_element(cmp_max(get_width(self), get_width(other)),
                get_height(self) + get_height(other),
                PrimFlow(down, <<self, other>>))

below(self, other) == above(other, self)

beside(self, other) ==
    new_element(get_width(self) + get_width(other),
                cmp_max(get_height(self), get_height(other)),
                PrimFlow(right, <<self, other>>))

Widths(elements) == [i \in DOMAIN elements |-> get_width(elements[i])]
Heights(elements) == [i \in DOMAIN elements |-> get_height(elements[i])]

\* Option::unwrap of the two maxima: both are None exactly when the list is empty
FlowSized(dir, elements, mw, mh) ==
    IF mw = None \/ mh = None
    THEN [panicked |-> TRUE, value |-> empty]
    ELSE LET max_w == mw[1]
             max_h == mh[1]
             sum_w == fold_sum(Widths(elements))
             sum_h == fold_sum(Heights(elements))
             new_flow(w, h) == new_element(w, h, PrimFlow(dir, elements))
         IN  Ok(CASE dir \in {"Up", "Down"} -> new_flow(max_w, sum_h)
                  [] dir \in {"Left", "Right"} -> new_flow(sum_w, max_h)
                  [] OTHER -> new_flow(max_w, max_h))

\* flow with the split between the two axes confused
flow_axes_swapped(dir, elements) ==
    IF elements = <<>> THEN Ok(empty)
    ELSE FlowSized(IF dir \in {"Up", "Down"} THEN "Left"
                   ELSE IF dir \in {"Left", "Right"} THEN "Up" ELSE dir,
                   elements,
                   iter_max(Widths(elements)), iter_max(Heights(elements)))

\* flow without its guard against the empty list
flow_unguarded(dir, elements) ==
    FlowSized(dir, elements,
              iter_max(Widths(elements)), iter_max(Heights(elements)))

flow(dir, elements) ==
    IF elements = <<>> THEN Ok(empty)
    ELSE FlowSized(dir, elements,
                   iter_max(Widths(elements)), iter_max(Heights(elements)))

unwrap_or(o, d) == IF o = None THEN d ELSE o[1]

layers(elements) ==
    LET max_w == unwrap_or(iter_max(Widths(elements)), 0)
        max_h == unwrap_or(iter_max(Heights(elements)), 0)
    IN  Ok(new_element(max_w, max_h, PrimFlow(outward, elements)))

RECURSIVE Nodes(_)
RECURSIVE NodesOf(_)
Nodes(e) == 1 + NodesOf(e.element.elements)
NodesOf(es) == IF es = <<>> THEN 0 ELSE Nodes(Head(es)) + NodesOf(Tail(es))

----------------------------------------------------------------------------
(* Exact fractions [n, d] in lowest terms with d > 0 *)

RECURSIVE Gcd(_, _)
Gcd(a, b) == IF b = 0 THEN a ELSE Gcd(b, a % b)

Q(n, d) ==
    LET s == IF d < 0 THEN 0 - 1 ELSE 1
        g == Gcd(IF n < 0 THEN 0 - n ELSE n, IF d < 0 THEN 0 - d ELSE d)
    IN  [n |-> (s * n) \div g, d |-> (s * d) \div g]

QAdd(a, b) == Q(a.n * b.d + b.n * a.d, a.d * b.d)
QMul(a, b) == Q(a.n * b.n, a.d * b.d)
\* a fraction as the log of a draw holds it: a whole number is the integer
Num(a) == IF a.d = 1 THEN a.n ELSE a

----------------------------------------------------------------------------
(* utils.rs: angles are f32 radians *)

\* d * cast(PI / 180.0)
degrees(d) == FMul(d, FDiv(PI, FInt(180)))

\* f = 2.0 * PI; f * t
turns(t) == FMul(FMul(FInt(2), PI), t)

modulo(a, b) ==
    LET r == a - b * TruncDiv(a, b)
    IN  IF (r > 0 /\ b < 0) \/ (r < 0 /\ b > 0) THEN r + b ELSE r

\* f.floor() as i32 of NaN is unspecified, and the sum is NaN whatever
\* it yields
fmod(f, n) ==
    IF IsNaN(f) THEN NaN
    ELSE LET rest(i) == FSub(FAdd(FInt(modulo(i, n)), f), FInt(i))
         IN  rest(FFloor(f))

utils_min(a, b) == IF FLe(a, b) THEN a ELSE b
utils_max(a, b) == IF FLe(b, a) THEN a ELSE b

----------------------------------------------------------------------------
(* color.rs: Color::Hsla(h, s, l, a), and the conversions *)

Color_Hsla(h, s, l, a) == [h |-> h, s |-> s, l |-> l, a |-> a]
IsHsla(c) == "h" \in DOMAIN c

\* color.rs 41-43
hsla(hue, saturation, lightness, a) ==
    Color_Hsla(FSub(hue, turns(Floor(FDiv(hue, FMul(FInt(2), PI))))),
               saturation, lightness, a)

\* color.rs 138-152, a definition per `let`: each takes the values of the
\* earlier ones as its arguments
rgb_to_hsl(red_, green_, blue_) ==
    LET hue(r, g, b, c_max, c) ==
            FMul(degrees(FInt(60)),
                 IF FEq(c_max, r) THEN fmod(FDiv(FSub(g, b), c), 6)
                 ELSE IF FEq(c_max, g)
                      THEN FAdd(FDiv(FSub(b, r), c), FInt(2))
                      ELSE FAdd(FDiv(FSub(r, g), c), FInt(4)))
        saturation(c, lightness) ==
            IF FEq(lightness, FInt(0)) THEN FInt(0)
            ELSE FDiv(c, FSub(FInt(1),
                              FAbs(FSub(FMul(FInt(2), lightness), FInt(1)))))
        from_c(r, g, b, c_max, c, lightness) ==
            <<hue(r, g, b, c_max, c), saturation(c, lightness), lightness>>
        from_max(r, g, b, c_max, c_min) ==
            from_c(r, g, b, c_max, FSub(c_max, c_min),
                   FDiv(FAdd(c_max, c_min), FInt(2)))
        from_rgb(r, g, b) ==
            from_max(r, g, b, utils_max(utils_max(r, g), b),
                     utils_min(utils_min(r, g), b))
    IN  from_rgb(FDiv(FInt(red_), FInt(255)), FDiv(FInt(green_), FInt(255)),
                 FDiv(FInt(blue_), FInt(255)))

\* color.rs 155-171, a definition per `let`: each takes the values of the
\* earlier ones as its arguments
hsl_to_rgb(hue_, saturation, lightness) ==
    LET zero == FInt(0)
        rgb1(hue, chroma, x) ==
            IF FLt(hue, FInt(0)) THEN <<zero, zero, zero>>
            ELSE IF FLt(hue, FInt(1)) THEN <<chroma, x, zero>>
            ELSE IF FLt(hue, FInt(2)) THEN <<x, chroma, zero>>
            ELSE IF FLt(hue, FInt(3)) THEN <<zero, chroma, x>>
            ELSE IF FLt(hue, FInt(4)) THEN <<zero, x, chroma>>
            ELSE IF FLt(hue, FInt(5)) THEN <<x, zero, chroma>>
            ELSE IF FLt(hue, FInt(6)) THEN <<chroma, zero, x>>
            ELSE <<zero, zero, zero>>
        plus_m(rgb, m) == <<FAdd(rgb[1], m), FAdd(rgb[2], m), FAdd(rgb[3], m)>>
        from_chroma(hue, chroma) ==
            plus_m(rgb1(hue, chroma,
                        FMul(chroma,
                             FSub(FInt(1),
                                  FAbs(FSub(fmod(hue, 2), FInt(1)))))),
                   FSub(lightness, FDiv(chroma, FInt(2))))
    IN  from_chroma(FDiv(hue_, degrees(FInt(60))),
                    FMul(FSub(FInt(1),
                              FAbs(FSub(FMul(FInt(2), lightness), FInt(1)))),
                         saturation))

complement(c) ==
    IF IsHsla(c) THEN hsla(FAdd(c.h, degrees(FInt(180))), c.s, c.l, c.a)
    ELSE LET from_hsl(hsl) ==
                 hsla(FAdd(hsl[1], degrees(FInt(180))), hsl[2], hsl[3], c.a)
         IN  from_hsl(rgb_to_hsl(c.r, c.g, c.b))

to_hsl(c) ==
    IF IsHsla(c) THEN c
    ELSE LET from_hsl(hsl) == Color_Hsla(hsl[1], hsl[2], hsl[3], c.a)
         IN  from_hsl(rgb_to_hsl(c.r, c.g, c.b))

Bytes == {0, 1, 100, 128, 254, 255}

\* f as u8: the byte of a number in range; a cast of NaN or of a number out
\* of range is left open by the language the code was written in, so any
\* byte is a possible outcome, drawn here from Bytes
as_u8(f) ==
    IF ~IsNaN(f) /\ f.e = 0 /\ f.n \in 0..255 THEN {f.n} ELSE Bytes

\* the colours to_rgb can return
to_rgb(c) ==
    IF IsHsla(c)
    THEN LET bytes(v) ==
                 {rgba(r, g, b, c.a) :
                     r \in as_u8(FRound(FMul(FInt(255), v[1]))),
                     g \in as_u8(FRound(FMul(FInt(255), v[2]))),
                     b \in as_u8(FRound(FMul(FInt(255), v[3])))}
         IN  bytes(hsl_to_rgb(c.h, c.s, c.l))
    ELSE {c}

----------------------------------------------------------------------------
(* transform_2d.rs: 2x3 matrices <<<<a, b, x>>, <<c, d, y>>>> *)

matrix(a, b, c, d, x, y) == <<<<a, b, x>>, <<c, d, y>>>>
identity == matrix(1, 0, 0, 1, 0, 0)
translation(x, y) == matrix(1, 0, 0, 1, x, y)
scale(s) == matrix(s, 0, 0, s, 0, 0)
scale_xy(sx, sy) == matrix(sx, 0, 0, sy, 0, 0)

\* rotation by q quarter turns, where cos and sin are whole numbers
Cos4(q) == <<1, 0, -1, 0>>[(q % 4) + 1]
Sin4(q) == <<0, 1, 0, -1>>[(q % 4) + 1]
rotation(q) == matrix(Cos4(q), -Sin4(q), Sin4(q), Cos4(q), 0, 0)

\* row_mat2x3_mul without the translation column of its left operand
multiply_no_translation(m, n) ==
    <<<<m[1][1] * n[1][1] + m[1][2] * n[2][1],
        m[1][1] * n[1][2] + m[1][2] * n[2][2],
        m[1][1] * n[1][3] + m[1][2] * n[2][3]>>,
      <<m[2][1] * n[1][1] + m[2][2] * n[2][1],
        m[2][1] * n[1][2] + m[2][2] * n[2][2],
        m[2][1] * n[1][3] + m[2][2] * n[2][3]>>>>

\* row_mat2x3_mul with its operands exchanged
multiply_reversed(m, n) ==
    <<<<n[1][1] * m[1][1] + n[1][2] * m[2][1],
        n[1][1] * m[1][2] + n[1][2] * m[2][2],
        n[1][1] * m[1][3] + n[1][2] * m[2][3] + n[1][3]>>,
      <<n[2][1] * m[1][1] + n[2][2] * m[2][1],
        n[2][1] * m[1][2] + n[2][2] * m[2][2],
        n[2][1] * m[1][3] + n[2][2] * m[2][3] + n[2][3]>>>>

\* vecmath's row_mat2x3_mul
multiply(m, n) ==
    <<<<m[1][1] * n[1][1] + m[1][2] * n[2][1],
        m[1][1] * n[1][2] + m[1][2] * n[2][2],
        m[1][1] * n[1][3] + m[1][2] * n[2][3] + m[1][3]>>,
      <<m[2][1] * n[1][1] + m[2][2] * n[2][1],
        m[2][1] * n[1][2] + m[2][2] * n[2][2],
        m[2][1] * n[1][3] + m[2][2] * n[2][3] + m[2][3]>>>>

----------------------------------------------------------------------------
(* form.rs: LineStyle, BasicForm, Form *)

LineStyle(c, cap, dashing) ==
    [color |-> c, width |-> 1, cap |-> cap, dashing |-> dashing]

solid(c) == LineStyle(c, "Flat", <<>>)
dashed(c) == LineStyle(c, "Flat", <<8, 4>>)
dotted(c) == LineStyle(c, "Flat", <<3, 3>>)

\* The enum BasicForm, as one record shape.
BasicForm(kind, style, line, fill, c, points, units, m, forms, element) ==
    [kind |-> kind, style |-> style, line |-> line, fill |-> fill,
     color |-> c, points |-> points, units |-> units,
     matrix |-> m, forms |-> forms, element |-> element]

Form_new(basic_form) ==
    [theta |-> 0, scale |-> 1, x |-> 0, y |-> 0, alpha |-> One,
     form |-> basic_form]

filled(shape, c) ==
    Form_new(BasicForm("Shape", "Fill", solid(black), "Solid", c,
                       shape, <<>>, identity, <<>>, None))
textured(shape) ==
    Form_new(BasicForm("Shape", "Fill", solid(black), "Texture", black,
                       shape, <<>>, identity, <<>>, None))
gradient(shape) ==
    Form_new(BasicForm("Shape", "Fill", solid(black), "Grad", black,
                       shape, <<>>, identity, <<>>, None))
outlined(shape, style) ==
    Form_new(BasicForm("Shape", "Line", style, "", black,
                       shape, <<>>, identity, <<>>, None))
traced(style, path) ==
    Form_new(BasicForm("PointPath", "", style, "", black,
                       path, <<>>, identity, <<>>, None))
text(units) ==
    Form_new(BasicForm("Text", "", solid(black), "", black,
                       <<>>, units, identity, <<>>, None))
outlined_text(style, units) ==
    Form_new(BasicForm("OutlinedText", "", style, "", black,
                       <<>>, units, identity, <<>>, None))
sprite ==
    Form_new(BasicForm("Image", "", solid(black), "", black,
                       <<>>, <<>>, identity, <<>>, None))
group_transform(m, forms) ==
    Form_new(BasicForm("Group", "", solid(black), "", black,
                       <<>>, <<>>, m, forms, None))
group(forms) == group_transform(identity, forms)

\* form.rs 218-220
to_form(element) ==
    Form_new(BasicForm("Element", "", solid(black), "", black,
                       <<>>, <<>>, identity, <<>>, Some(element)))

\* Form::shift, scale, rotate, alpha (x, y in half-pixels, theta in quarter turns)
shift(self, x, y) == [self EXCEPT !.x = self.x + x, !.y = self.y + y]
Form_scale(self, s) == [self EXCEPT !.scale = self.scale * s]
rotate(self, q) == [self EXCEPT !.theta = self.theta + q]
alpha(self, a) == [self EXCEPT !.alpha = a]

\* rect(w, h) for even w and h, in pixels
rect(w, h) ==
    LET hw == w \div 2
        hh == h \div 2
    IN  <<<<0 - hw, 0 - hh>>, <<0 - hw, hh>>, <<hw, hh>>, <<hw, 0 - hh>>>>
square(n) == rect(n, n)

\* amp * cos or sin of i n-ths of a turn: a whole number on the axes, and a
\* term left as it is elsewhere
Turned(amp, fn, i, n) ==
    IF amp = 0 THEN 0
    ELSE IF (4 * i) % n = 0
         THEN amp * (IF fn = "cos" THEN Cos4((4 * i) \div n)
                     ELSE Sin4((4 * i) \div n))
         ELSE [amp |-> amp, fn |-> fn, i |-> i, n |-> n]

\* (0..n) in place of (0..n-1): the first point once more at the end
oval_closed(w, h) ==
    LET n == 50
        hw == w \div 2
        hh == h \div 2
        f(i) == <<Turned(hw, "cos", i, n), Turned(hh, "sin", i, n)>>
    IN  [k \in 1..n |-> f(k - 1)]

oval(w, h) ==
    LET n == 50
        hw == w \div 2
        hh == h \div 2
        f(i) == <<Turned(hw, "cos", i, n), Turned(hh, "sin", i, n)>>
    IN  [k \in 1..(n - 1) |-> f(k - 1)]

circle(r) ==
    LET d == 2 * r
    IN  oval(d, d)

ngon(n, r) ==
    LET f(i) == <<Turned(r, "cos", i, n), Turned(r, "sin", i, n)>>
    IN  [k \in 1..n |-> f(k - 1)]

polygon(points) == points

\* form.rs 525-532: convert_color(color, alpha) is [r, g, b, a * alpha], with
\* the r, g, b of hsl_to_rgb for a Color::Hsla and the r, g, b of a
\* Color::Rgba as they are
convert_color(c, a) ==
    IF IsHsla(c)
    THEN LET with_alpha(v) ==
                 [r |-> Whole(v[1]), g |-> Whole(v[2]), b |-> Whole(v[3]),
                  a |-> FMul(c.a, a)]
         IN  with_alpha(hsl_to_rgb(c.h, c.s, c.l))
    ELSE [r |-> c.r, g |-> c.g, b |-> c.b, a |-> FMul(c.a, a)]

----------------------------------------------------------------------------
(* text.rs: Style, TextUnit, Text *)

Style_default ==
    [typeface |-> None, height |-> None, color |-> black, bold |-> FALSE,
     italic |-> FALSE, line |-> None, monospace |-> FALSE]

\* Text { sequence: Vec<TextUnit { string, style }>, position }
Text(sequence, position) == [sequence |-> sequence, position |-> position]

from_string(string) ==
    Text(<<[string |-> string, style |-> Style_default]>>, "Center")

Text_empty == from_string("")

append(self, other) ==
    [self EXCEPT !.sequence = self.sequence \o other.sequence]

\* texts.get(0).map(|t| t.position).unwrap_or(Position::Center), and the
\* units of all the texts in order
RECURSIVE flat_map(_)
flat_map(texts) ==
    IF texts = <<>> THEN <<>>
    ELSE Head(texts).sequence \o flat_map(Tail(texts))

concat(texts) ==
    Text(flat_map(texts),
         IF texts = <<>> THEN "Center" ELSE texts[1].position)

\* texts.into_iter().fold(acc, |texts, text|
\*     texts.append(text).append(separator.clone()))
RECURSIVE fold_join(_, _, _)
fold_join(acc, separator, texts) ==
    IF texts = <<>> THEN acc
    ELSE fold_join(append(append(acc, Head(texts)), separator),
                   separator, Tail(texts))

join(separator, texts) == fold_join(Text_empty, separator, texts)

\* for unit in self.sequence.iter_mut() { unit.style.<field> = value; }
for_each_unit(self, field, value) ==
    [self EXCEPT !.sequence =
        [i \in DOMAIN self.sequence |->
            [self.sequence[i] EXCEPT !.style[field] = value]]]

\* a builder that styles the first unit only
Text_color_first(self, c) ==
    [self EXCEPT !.sequence[1].style.color = c]

Text_typeface(self, path) == for_each_unit(self, "typeface", Some(path))
Text_monospace(self) == for_each_unit(self, "monospace", TRUE)
Text_height(self, h) == for_each_unit(self, "height", Some(h))
Text_color(self, c) == for_each_unit(self, "color", c)
Text_bold(self) == for_each_unit(self, "bold", TRUE)
Text_italic(self) == for_each_unit(self, "italic", TRUE)
Text_line(self, l) == for_each_unit(self, "line", Some(l))

----------------------------------------------------------------------------
(* The Renderer's graphics Context: transform, view size, viewport, scissor *)

U16Modulus == 65536

\* `as u16` on an i32
AsU16(n) == n % U16Modulus

Context(transform, view, viewport, scissor) ==
    [transform |-> transform, view |-> view, viewport |-> viewport,
     scissor |-> scissor]

Rect(x, y, w, h) == [x |-> x, y |-> y, w |-> w, h |-> h]

get_view_size(context) == context.view

\* Transformed::trans and ::scale on a Context (lengths in half-pixels)
trans(context, x, y) ==
    [context EXCEPT !.transform = multiply(context.transform, translation(x, y))]
ctx_scale(context, sx, sy) ==
    [context EXCEPT !.transform = multiply(context.transform, scale_xy(sx, sy))]

\* utils.rs 56-65: map_range of f64 val, in_min and in_max, given in
\* half-pixels, to the i32 range out_min..out_max:
\* (val - in_min) / (in_max - in_min) * (out_max - out_min) + out_min, every
\* step rounded to f64, and the sum cast to i32; in_max is not in_min
map_range(val2, in_min2, in_max2, out_min, out_max) ==
    LET val_f == FlFromHalves(F64, val2)
        in_min_f == FlFromHalves(F64, in_min2)
        in_max_f == FlFromHalves(F64, in_max2)
        out_min_f == FlFromInt(F64, out_min)
        out_max_f == FlFromInt(F64, out_max)
    IN  FlTrunc(FlAdd(F64,
                      FlMul(F64,
                            FlDiv(F64, FlSub(F64, val_f, in_min_f),
                                  FlSub(F64, in_max_f, in_min_f)),
                            FlSub(F64, out_max_f, out_min_f)),
                      out_min_f))

\* element.rs 466-469 and 477-478: (w * (draw_dim / view_dim)) as i32, the
\* quotient and the product rounded to f64
scale_side(w, draw_side, view_side) ==
    FlTrunc(FlMul(F64, FlFromInt(F64, w),
                  FlDiv(F64, FlFromInt(F64, draw_side),
                        FlFromInt(F64, view_side))))

\* The overlap of two scissor rectangles that the disjointness test let through
overlap_rect(x, y, w, h, active) ==
    LET a_l == x
        a_r == AsU16(x + w)
        a_b == y
        a_t == AsU16(y + h)
        b_l == active.x
        b_r == AsU16(active.x + active.w)
        b_b == active.y
        b_t == AsU16(active.y + active.h)
        l == IF a_l > b_l THEN a_l ELSE b_l
        r == IF a_r < b_r THEN a_r ELSE b_r
        b == IF a_b > b_b THEN a_b ELSE b_b
        t == IF a_t < b_t THEN a_t ELSE b_t
    IN  Rect(l, b, AsU16(r - l), AsU16(t - b))

\* element.rs 484: the two rectangles do not meet
no_intersection(x, y, w, h, active) ==
    \/ AsU16(x + w) < active.x
    \/ AsU16(active.x + active.w) < x
    \/ AsU16(y + h) < active.y
    \/ AsU16(active.y + active.h) < y

\* element.rs 483-501: the new scissor against the one already set
intersect_scissor(x, y, w, h, scissor) ==
    IF scissor = None THEN Rect(x, y, w, h)
    ELSE IF no_intersection(x, y, w, h, scissor[1]) THEN Rect(x, y, 0, 0)
    ELSE overlap_rect(x, y, w, h, scissor[1])

\* element.rs 471-480: a negative x or y becomes 0, and what it lost is
\* taken off w or h
clip_negative(x, y, w, h) ==
    Rect(AsU16(cmp_max(0, x)), AsU16(cmp_max(0, y)),
         AsU16(cmp_max(0, w + (IF x < 0 THEN x ELSE 0))),
         AsU16(cmp_max(0, h + (IF y < 0 THEN y ELSE 0))))

\* element.rs 441-480: the crop (x, y, w, h), centre origin, in view pixels,
\* to a bottom-left origin rectangle in draw pixels
convert_crop(c, context) ==
    LET view_dim == get_view_size(context)
        draw_dim == IF context.viewport = None THEN view_dim
                    ELSE context.viewport[1]
        left2 == 0 - view_dim[1]
        right2 == view_dim[1]
        bottom2 == 0 - view_dim[2]
        top2 == view_dim[2]
        left_x2 == 2 * c[1] - c[3]
        top_y2 == 2 * c[2] - c[4]
    IN  clip_negative(map_range(left_x2, left2, right2, 0, draw_dim[1]),
                      map_range(top_y2, bottom2, top2, 0, draw_dim[2]),
                      scale_side(c[3], draw_dim[1], view_dim[1]),
                      scale_side(c[4], draw_dim[2], view_dim[2]))

\* element.rs 482-504: the Context with the scissor r against the one it has
set_scissor(r, context) ==
    [context EXCEPT
        !.scissor = Some(intersect_scissor(r.x, r.y, r.w, r.h,
                                           context.scissor))]

\* element.rs 435-506: the Context an Element's Prim is drawn with
crop_context(props, context) ==
    IF props.crop = None THEN context
    ELSE set_scissor(convert_crop(props.crop[1], context), context)

\* element.rs 536-552: the Context a Container's child is drawn with.
\* Absolute(i) is i pixels = 2 * i half-pixels; Relative holds half units.
container_context(position, context) ==
    LET x == position.x
        y == position.y
        at(m) == [context EXCEPT !.transform = m]
    IN  CASE x.kind = "Relative" /\ y.kind = "Relative" ->
                 trans(context, x.v, y.v)
          [] x.kind = "Absolute" /\ y.kind = "Relative" ->
                 trans(at(matrix(1, 0, 0, 1, 2 * x.v, 0)), 0, y.v)
          [] x.kind = "Relative" /\ y.kind = "Absolute" ->
                 trans(at(matrix(1, 0, 0, 1, 0, 2 * y.v)), x.v, 0)
          [] OTHER ->
                 at(matrix(1, 0, 0, 1, 2 * x.v, 2 * y.v))

\* element.rs 560-583: the Contexts the children of an Up, Down, Left or
\* Right Flow are drawn with, in list order (half_prev in half-pixels)
RECURSIVE flow_contexts(_, _, _, _)
flow_contexts(direction, elements, context, half_prev) ==
    IF elements = <<>> THEN <<>>
    ELSE LET vertical == direction \in {"Up", "Down"}
             multi == IF direction \in {"Up", "Right"} THEN 1 ELSE -1
             half == IF vertical THEN get_height(Head(elements))
                     ELSE get_width(Head(elements))
             step == (half + half_prev) * multi
             next == IF vertical THEN trans(context, 0, step)
                     ELSE trans(context, step, 0)
         IN  <<context>> \o flow_contexts(direction, Tail(elements), next, half)

Reverse(s) == [i \in DOMAIN s |-> s[Len(s) + 1 - i]]

\* a Flow that visits its children in list order whatever the direction
flow_order_forward(direction, n) == [i \in 1..n |-> i]

\* element.rs 584-595: the order in which a Flow visits its children
flow_order(direction, n) ==
    IF direction = "In" THEN Reverse([i \in 1..n |-> i]) ELSE [i \in 1..n |-> i]

----------------------------------------------------------------------------
(* The log of a draw *)

Event(ev, path, kind, o, m, scissor, c) ==
    [ev |-> ev, path |-> path, kind |-> kind, opacity |-> o,
     matrix |-> m, scissor |-> scissor, color |-> c]

Panic(path) == Event("panic", path, "", One, identity, None, black)

Panicked(l) == l # <<>> /\ l[Len(l)].ev = "panic"

\* b runs after a unless a panicked
Then(a, b) == IF Panicked(a) THEN a ELSE a \o b


----------------------------------------------------------------------------
(* form.rs: draw_form.  The draw_form of form.rs takes the Form, a matrix   *)
(* and a DrawState; element.rs hands it an opacity and a Context.  The      *)
(* matrix and the DrawState are the Context's; no parameter of draw_form    *)
(* receives the opacity, and every colour goes through                      *)
(* convert_color(color, alpha) with the Form's own alpha.  BasicForm::Element *)
(* goes back to element::draw_element with the Element and the Form's       *)
(* matrix: the opacity and the Context are the ones draw_form was given,    *)
(* the Context with that matrix as its transform.                           *)

\* TextUnit: string, style.height (Option, pixels), style.color
TextUnit(string, h, c) == [string |-> string, height |-> h, color |-> c]

Repeat(n, e) == [i \in 1..n |-> e]

\* the (total_width, max_height) fold of form.rs 480-487, in pixels; the
\* character cache gives every glyph the same width
RECURSIVE text_extent(_, _)
text_extent(units, glyph) ==
    IF units = <<>> THEN <<0, 0>>
    ELSE LET u == Head(units)
             unit_height == unwrap_or(u.height, 16)
             rest == text_extent(Tail(units), glyph)
         IN  <<glyph * Len(u.string) + rest[1], cmp_max(unit_height, rest[2])>>

\* the matrix with the rotation applied before the translation
form_matrix_rotate_first(m, form) ==
    multiply(multiply(multiply(m, rotation(form.theta)), scale(form.scale)),
             translation(form.x, form.y))

\* form.rs 404-407: matrix * translation(x, y) * scale(scale) * rotation(theta)
form_matrix(m, form) ==
    multiply(multiply(multiply(m, translation(form.x, form.y)),
                      scale(form.scale)),
             rotation(form.theta))

\* a Group that leaves its own matrix out
group_matrix_dropped(m, group_transform_) == m

\* form.rs 513: matrix * group_transform
group_matrix(m, group_transform_) == multiply(m, group_transform_)

\* a Group that fades its children by its own alpha
group_child_faded(group_alpha, form) ==
    [form EXCEPT !.alpha = FMul(group_alpha, @)]

\* form.rs 514-516: a Group draws each child Form as it is
group_child(group_alpha, form) == form

\* an extension point that does nothing
unimplemented_silent(path) == <<>>

\* unimplemented!()
unimplemented(path) == <<Panic(path)>>

\* a closing line whatever the number of points
closing_lines_always(points) == 1

\* form.rs 450-452: the line from the last point back to the first
closing_lines(points) == IF Len(points) > 2 THEN 1 ELSE 0

\* one window for every point
windows_per_point(points) == Len(points)

\* points.windows(2): the pairs of consecutive points
windows(points) == IF Len(points) > 1 THEN Len(points) - 1 ELSE 0

\* multiply(m, translation(x, y)) for fractions x and y.  The entries are
\* kept exact: nothing the program does turns an entry of the matrix of a
\* text call into a whole number
translated(m, x, y) ==
    LET col(row) ==
            Num(QAdd(QAdd(QMul(Q(row[1], 1), x), QMul(Q(row[2], 1), y)),
                     Q(row[3], 1)))
    IN  <<<<m[1][1], m[1][2], col(m[1])>>, <<m[2][1], m[2][2], col(m[2])>>>>

\* form.rs 489: translation(-total_width / 2.0, max_height / 3.0) after the
\* matrix, for the extent <<total_width, max_height>> in pixels; the matrix
\* is in half-pixels
text_offset(m, ext) == translated(m, Q(0 - ext[1], 1), Q(2 * ext[2], 3))

\* a Text that cannot be drawn without a character cache
draw_text_needs_cache(units, a, o, m, scissor, path, cache) ==
    IF cache = None THEN <<Panic(path)>>
    ELSE [i \in DOMAIN units |->
             Event("text", path, "Text", o, m, scissor,
                   convert_color(units[i].color, a))]

\* form.rs 475-499: BasicForm::Text, one call per unit, or nothing at all
\* without a character cache
draw_text(units, a, o, m, scissor, path, cache) ==
    IF cache = None THEN <<>>
    ELSE LET flipped == multiply(m, scale_xy(1, -1))
             ext == text_extent(units, cache[1])
             mt == text_offset(flipped, ext)
         IN  [i \in DOMAIN units |->
                 Event("text", path, "Text", o, mt, scissor,
                       convert_color(units[i].color, a))]

RECURSIVE draw_form(_, _, _, _, _)
RECURSIVE draw_forms(_, _, _, _, _, _)
RECURSIVE draw_element(_, _, _, _, _)

draw_form(form, o, context, path, cache) ==
    LET m == form_matrix(context.transform, form)
        f == form.form
        entered == <<Event("form", path, f.kind, o, context.transform,
                           context.scissor, black)>>
        prim(ev, mm, c) ==
            Event(ev, path, f.kind, o, mm, context.scissor,
                  convert_color(c, form.alpha))
        lines(n) ==
            IF n = 0 THEN <<>>
            ELSE IF f.line.cap = "Padded" THEN unimplemented(path)
            ELSE Repeat(n, prim("line", m, f.line.color))
    IN  entered \o
        CASE f.kind = "PointPath" ->
                 IF windows(f.points) > 0 /\ f.line.dashing # <<>>
                 THEN unimplemented(path)
                 ELSE lines(windows(f.points))
          [] f.kind = "Shape" /\ f.style = "Line" ->
                 lines(windows(f.points) + closing_lines(f.points))
          [] f.kind = "Shape" /\ f.style = "Fill" ->
                 IF f.fill = "Solid" THEN <<prim("polygon", m, f.color)>>
                 ELSE unimplemented(path)
          [] f.kind = "OutlinedText" -> unimplemented(path)
          [] f.kind = "Text" ->
                 draw_text(f.units, form.alpha, o, m, context.scissor,
                           path, cache)
          [] f.kind = "Image" -> unimplemented(path)
          [] f.kind = "Group" ->
                 draw_forms([i \in DOMAIN f.forms |->
                                group_child(form.alpha, f.forms[i])],
                            1, o,
                            [context EXCEPT
                                !.transform = group_matrix(m, f.matrix)],
                            path, cache)
          [] f.kind = "Element" ->
                 draw_element(f.element[1], o,
                              [context EXCEPT !.transform = m],
                              path \o <<1>>, cache)

\* the forms from the i-th on, each with the same opacity and Context
draw_forms(forms, i, o, context, path, cache) ==
    IF i > Len(forms) THEN <<>>
    ELSE Then(draw_form(forms[i], o, context, path \o <<i>>, cache),
              draw_forms(forms, i + 1, o, context, path, cache))

----------------------------------------------------------------------------
(* element.rs: draw_element and Element::draw *)

\* the opacity that ignores what the ancestors accumulated
new_opacity_own(o, props) == props.opacity

\* element.rs 553, 565, 577, 586, 592, 601: opacity * props.opacity
new_opacity(o, props) == FMul(o, props.opacity)

\* a Cleared that multiplies its own opacity property in
cleared_opacity_own(o, props) == FMul(o, props.opacity)

\* element.rs 608: a Cleared hands on the opacity it was given
cleared_opacity(o, props) == o

RECURSIVE draw_prim(_, _, _, _, _)
RECURSIVE draw_children(_, _, _, _, _, _, _)

\* element.rs 419-506: the crop of the Element sets the scissor of the
\* Context, and the Prim is drawn with that Context
draw_element(el, o, context_in, path, cache) ==
    draw_prim(el, o, crop_context(el.props, context_in), path, cache)

\* element.rs 508-611: the match on the Prim
draw_prim(el, o, context, path, cache) ==
    LET props == el.props
        element == el.element
        entered == <<Event("element", path, element.kind, o,
                           context.transform, context.scissor, black)>>
        child_opacity == new_opacity(o, props)
    IN  entered \o
        CASE element.kind = "Image" -> <<Panic(path)>>
          [] element.kind = "Container" ->
                 draw_element(element.elements[1], child_opacity,
                              container_context(element.pos, context),
                              path \o <<1>>, cache)
          [] element.kind = "Flow" ->
                 LET n == Len(element.elements)
                     contexts ==
                         IF element.dir \in {"In", "Out"}
                         THEN Repeat(n, context)
                         ELSE flow_contexts(element.dir, element.elements,
                                            context, 0)
                 IN  draw_children(element.elements,
                                   flow_order(element.dir, n), contexts,
                                   1, child_opacity, path, cache)
          [] element.kind = "Collage" ->
                 draw_forms(element.forms, 1, child_opacity, context, path, cache)
          [] element.kind = "Cleared" ->
                 <<Event("clear", path, "Cleared", o, context.transform,
                         context.scissor, element.color)>>
                 \o draw_element(element.elements[1],
                                 cleared_opacity(o, props), context,
                                 path \o <<1>>, cache)
          [] OTHER -> <<>>

\* the k-th and later visits of a Flow's loop
draw_children(elements, order, contexts, k, o, path, cache) ==
    IF k > Len(order) THEN <<>>
    ELSE Then(draw_element(elements[order[k]], o, contexts[order[k]],
                           path \o <<order[k]>>, cache),
              draw_children(elements, order, contexts, k + 1, o, path, cache))

\* Renderer::new(context, backend) and .character_cache(cache); the cache is
\* None or Some(the width of one glyph in pixels)
Renderer_new(context) == [context |-> context, maybe_character_cache |-> None]
character_cache(self, glyph) == [self EXCEPT !.maybe_character_cache = Some(glyph)]

Element_draw(self, r) ==
    LET view_size == get_view_size(r.context)
        context == ctx_scale(trans(r.context, view_size[1], view_size[2]), 1, -1)
    IN  draw_element(self, One, context, <<>>, r.maybe_character_cache)

\* the crop of the element at path
RECURSIVE crop_at(_, _)
crop_at(el, path) ==
    IF path = <<>> THEN el.props.crop
    ELSE crop_at(el.element.elements[Head(path)], Tail(path))

\* element.rs 484: a sum of the scissor test goes beyond the u16 range; the
\* sums are taken from left to right until one comparison holds
sum_overflows(a, active) ==
    \/ a.x + a.w >= U16Modulus
    \/ /\ ~(a.x + a.w < active.x)
       /\ \/ active.x + active.w >= U16Modulus
          \/ /\ ~(active.x + active.w < a.x)
             /\ \/ a.y + a.h >= U16Modulus
                \/ /\ ~(a.y + a.h < active.y)
                   /\ active.y + active.h >= U16Modulus

\* The entries l of a draw as a build with overflow checks makes them:
\* the draw panics at the first crop whose scissor test overflows, where a
\* build without them goes on with the wrapped sums.
overflow_checks(l, el, context) ==
    LET parent(i) ==
            IF l[i].path = <<>> THEN context.scissor
            ELSE l[CHOOSE j \in 1..i :
                      /\ l[j].ev = "element"
                      /\ l[j].path = SubSeq(l[i].path, 1,
                                            Len(l[i].path) - 1)].scissor
        overflows(i) ==
            /\ l[i].ev = "element"
            /\ crop_at(el, l[i].path) # None
            /\ parent(i) # None
            /\ sum_overflows(convert_crop(crop_at(el, l[i].path)[1], context),
                             parent(i)[1])
        bad == {i \in DOMAIN l : overflows(i)}
    IN  IF bad = {} THEN l
        ELSE LET first == CHOOSE i \in bad : \A j \in bad : i <= j
             IN  SubSeq(l, 1, first - 1) \o <<Panic(l[first].path)>>


----------------------------------------------------------------------------
(* The caller: building Elements *)

Sizes == {1, 2}
MaxStack == MaxNodes - 1
Opacities == {One, Half}

\* collages the caller draws: one solid shape, or two forms with alphas
Forms1 == <<filled(rect(2, 2), blue)>>
Forms2 == <<alpha(filled(rect(4, 2), rgba(204, 0, 0, Half)), Half),
            outlined(rect(2, 2), solid(red))>>

NoCall == [op |-> "", dir |-> "", args |-> <<>>, panicked |-> FALSE,
           result |-> empty]

Call(op, dir, args, res) ==
    [op |-> op, dir |-> dir, args |-> args, panicked |-> res.panicked,
     result |-> res.value]

Top == stack[Len(stack)]
Pop(n) == SubSeq(stack, 1, Len(stack) - n)
TopN(n) == SubSeq(stack, Len(stack) - n + 1, Len(stack))
StackNodes == NodesOf(stack)

\* a builder call that takes the newest n Elements and gives one back
Built(op, dir, n, res) ==
    /\ last' = Call(op, dir, TopN(n), res)
    /\ stack' = IF res.panicked THEN Pop(n) ELSE Append(Pop(n), res.value)
    /\ UNCHANGED <<root, renderer, log>>

Init ==
    /\ stack = <<>>
    /\ last = NoCall
    /\ root = empty
    /\ renderer = Renderer_new(Context(identity, <<8, 8>>, None, None))
    /\ log = <<>>

Spacer ==
    /\ Len(stack) < MaxStack /\ StackNodes < MaxNodes
    /\ \E w \in Sizes, h \in Sizes : Built("spacer", "", 0, Ok(spacer(w, h)))

Collage ==
    /\ Len(stack) < MaxStack /\ StackNodes < MaxNodes
    /\ Built("collage", "", 0, Ok(collage(2, 1, Forms1)))

Flow ==
    \E dir \in Directions, n \in 0..Len(stack) :
        /\ n > 0 \/ (Len(stack) < MaxStack /\ StackNodes < MaxNodes)
        /\ n = 0 \/ StackNodes < MaxNodes
        /\ Built("flow", dir, n, flow(dir, TopN(n)))

Layers ==
    \E n \in 0..Len(stack) :
        /\ n > 0 \/ (Len(stack) < MaxStack /\ StackNodes < MaxNodes)
        /\ n = 0 \/ StackNodes < MaxNodes
        /\ Built("layers", "", n, layers(TopN(n)))

Above ==
    /\ Len(stack) >= 2 /\ StackNodes < MaxNodes
    /\ Built("above", "", 2, Ok(above(TopN(2)[1], TopN(2)[2])))

Below ==
    /\ Len(stack) >= 2 /\ StackNodes < MaxNodes
    /\ Built("below", "", 2, Ok(below(TopN(2)[1], TopN(2)[2])))

Beside ==
    /\ Len(stack) >= 2 /\ StackNodes < MaxNodes
    /\ Built("beside", "", 2, Ok(beside(TopN(2)[1], TopN(2)[2])))

Container ==
    /\ Len(stack) >= 1 /\ StackNodes < MaxNodes
    /\ \E pos \in {middle, top_left} :
           Built("container", "", 1, Ok(container(Top, 4, 4, pos)))

Clear ==
    /\ Len(stack) >= 1 /\ StackNodes < MaxNodes
    /\ Built("clear", "", 1, Ok(clear(Top, black)))

Next ==
    \/ Spacer \/ Collage
    \/ Flow \/ Layers \/ Above \/ Below \/ Beside
    \/ Container \/ Clear

Spec == Init /\ [][Next]_vars


----------------------------------------------------------------------------
(* The caller: building one Element from the inside out, and drawing it *)

RECURSIVE Depth(_)
RECURSIVE DepthOf(_)
Depth(e) == 1 + DepthOf(e.element.elements)
DepthOf(es) ==
    IF es = <<>> THEN 0 ELSE cmp_max(Depth(Head(es)), DepthOf(Tail(es)))

Drawn == last.op = "draw"

DrawLeaves == {collage(4, 2, Forms2), spacer(2, 4)}
Siblings == {spacer(4, 2), collage(2, 4, Forms1)}
DrawPositions ==
    {top_left, bottom_right, middle, mid_right,
     mid_left_at(relative(1), absolute(1))}

\* view 8 x 8, drawn as it is and onto a viewport twice the size; on these
\* sides the f64 quotients of map_range and of w_scale come out exact
PlainRenderer == Renderer_new(Context(identity, <<8, 8>>, None, None))
HiDpiRenderer == Renderer_new(Context(identity, <<8, 8>>, Some(<<16, 16>>), None))

\* crops (x, y, w, h), centre origin: the whole view, its middle, its left
\* and right bands, one reaching below and left of the view, one with odd
\* sides, its upper right quarter
Crops ==
    {<<0, 0, 8, 8>>, <<0, 0, 4, 4>>, <<-3, 0, 2, 8>>, <<3, 0, 2, 8>>,
     <<-5, -5, 4, 4>>, <<0, 1, 3, 3>>, <<2, 2, 4, 4>>}

SeqsUpTo(S, n) == UNION {[1..k -> S] : k \in 0..n}

Rebuilt(op, dir, args, e) ==
    /\ ~Drawn
    /\ root' = e
    /\ last' = Call(op, dir, args, Ok(e))
    /\ UNCHANGED <<stack, renderer, log>>

CanWrap(extra) ==
    /\ Depth(root) < MaxDrawDepth
    /\ Nodes(root) + 1 + extra <= MaxDrawNodes

SetOpacity ==
    /\ root.props.opacity = One
    /\ Rebuilt("opacity", "", <<root>>, opacity(root, Half))

SetCrop ==
    /\ root.props.crop = None
    /\ \E c \in Crops :
           Rebuilt("crop", "", <<root>>, crop(root, c[1], c[2], c[3], c[4]))

WrapContainer(positions) ==
    /\ CanWrap(0)
    /\ \E pos \in positions :
           Rebuilt("container", "", <<root>>, container(root, 8, 8, pos))

WrapClear ==
    /\ CanWrap(0)
    /\ \E c \in {black, blue} :
           Rebuilt("clear", "", <<root>>, clear(root, c))

\* flow(dir, before ++ [root] ++ after)
WrapFlow(dirs, siblings) ==
    /\ CanWrap(0)
    /\ LET room == MaxDrawNodes - 1 - Nodes(root)
       IN  \E dir \in dirs :
           \E before \in SeqsUpTo(siblings, room) :
           \E after \in SeqsUpTo(siblings, room - Len(before)) :
               Rebuilt("flow", dir, before \o <<root>> \o after,
                       flow(dir, before \o <<root>> \o after).value)

\* Element::draw
Draw ==
    /\ ~Drawn
    /\ log' = Element_draw(root, renderer)
    /\ last' = [op |-> "draw", dir |-> "", args |-> <<root>>,
                panicked |-> Panicked(log'), result |-> root]
    /\ UNCHANGED <<stack, root, renderer>>

InitDraw ==
    /\ stack = <<>>
    /\ last = NoCall
    /\ root \in DrawLeaves
    /\ renderer = PlainRenderer
    /\ log = <<>>

NextDraw ==
    \/ SetOpacity
    \/ WrapContainer(DrawPositions)
    \/ WrapClear
    \/ WrapFlow(Directions, Siblings)
    \/ Draw

SpecDraw == InitDraw /\ [][NextDraw]_vars

InitCrop ==
    /\ stack = <<>>
    /\ last = NoCall
    /\ root = collage(8, 8, Forms1)
    /\ renderer \in {PlainRenderer, HiDpiRenderer}
    /\ log = <<>>

NextCrop ==
    \/ SetCrop
    \/ WrapContainer({middle})
    \/ WrapClear
    \/ WrapFlow({"Down", "In"}, {})
    \/ Draw

SpecCrop == InitCrop /\ [][NextCrop]_vars

----------------------------------------------------------------------------
(* The caller: building one Form from the inside out, and drawing it as the *)
(* only Form of a Collage                                                   *)

CachedRenderer == character_cache(PlainRenderer, 3)

Units2 == <<TextUnit("hi", Some(4), red), TextUnit("you", Some(3), blue)>>
Path3 == <<<<0, 0>>, <<2, 0>>, <<2, 2>>>>

FormLeaves ==
    {filled(rect(2, 2), blue),
     outlined(rect(2, 2), solid(red)),
     outlined(rect(2, 2), dashed(red)),
     traced(solid(red), Path3),
     traced(dotted(red), Path3),
     traced(dashed(red), <<<<0, 0>>>>),
     textured(rect(2, 2)),
     gradient(rect(2, 2)),
     sprite,
     outlined_text(solid(black), Units2),
     text(Units2),
     filled(polygon(<<>>), blue),
     outlined(polygon(<<>>), solid(red)),
     to_form(collage(2, 2, <<filled(rect(2, 2), blue)>>))}

\* the sibling a group is given: a Form with transform fields of its own
Sibling == alpha(Form_scale(shift(filled(rect(2, 2), red), 1, 1), 2), Half)
GroupMatrices == {identity, matrix(0, -1, 1, 0, 2, 0)}

\* the builder calls that went into a Form, those of its siblings apart
RECURSIVE FormCost(_)
RECURSIVE FormsCost(_)
FormCost(f) ==
    (IF f.x # 0 \/ f.y # 0 THEN 1 ELSE 0) + (IF f.scale # 1 THEN 1 ELSE 0)
    + (IF f.theta # 0 THEN 1 ELSE 0) + (IF f.alpha # One THEN 1 ELSE 0)
    + (IF f.form.kind = "Group" THEN 1 + FormsCost(f.form.forms) ELSE 0)
FormsCost(fs) ==
    IF fs = <<>> THEN 0
    ELSE (IF Head(fs) = Sibling THEN 0 ELSE FormCost(Head(fs)))
         + FormsCost(Tail(fs))

FormBuilt(op, args, f) ==
    /\ ~Drawn
    /\ FormCost(stack[1]) < MaxFormCost
    /\ stack' = <<f>>
    /\ last' = [op |-> op, dir |-> "", args |-> args, panicked |-> FALSE,
                result |-> empty]
    /\ UNCHANGED <<root, renderer, log>>

Shift ==
    /\ stack[1].x = 0
    /\ FormBuilt("shift", <<stack[1]>>, shift(stack[1], 1, 2))

Scale ==
    /\ stack[1].scale = 1
    /\ FormBuilt("scale", <<stack[1]>>, Form_scale(stack[1], 2))

Rotate ==
    /\ stack[1].theta = 0
    /\ FormBuilt("rotate", <<stack[1]>>, rotate(stack[1], 1))

Alpha ==
    /\ stack[1].alpha = One
    /\ FormBuilt("alpha", <<stack[1]>>, alpha(stack[1], Half))

Group ==
    \E m \in GroupMatrices :
    \E around \in {<<<<>>, <<>>>>, <<<<Sibling>>, <<>>>>, <<<<>>, <<Sibling>>>>} :
        /\ Len(stack) = 1
        /\ FormBuilt("group", <<stack[1]>>,
                     group_transform(m, around[1] \o stack \o around[2]))

\* collage(w, h, forms) and Element::draw
DrawForm ==
    /\ ~Drawn
    /\ root' = collage(8, 8, stack)
    /\ log' = Element_draw(root', renderer)
    /\ last' = [op |-> "draw", dir |-> "", args |-> <<>>,
                panicked |-> Panicked(log'), result |-> root']
    /\ UNCHANGED <<stack, renderer>>

InitForm ==
    /\ stack \in {<<f>> : f \in FormLeaves}
    /\ last = NoCall
    /\ root = empty
    /\ renderer \in {PlainRenderer, CachedRenderer}
    /\ log = <<>>

NextForm == Shift \/ Scale \/ Rotate \/ Alpha \/ Group \/ DrawForm

SpecForm == InitForm /\ [][NextForm]_vars


----------------------------------------------------------------------------
(* The caller: resizing an Element *)

\* 27 is a width at which an Image 6 wide and 7 high comes to lie halfway
\* between two heights
Dims == (1..MaxDim) \cup {27}

\* one Element of every Prim; 7 / 6 and 6 / 7 are rounded on f32, the other
\* quotients are exact
SizeElements ==
    {spacer(2, 2), image(4, 2), image(6, 7), collage(2, 4, Forms1),
     collage(4, 1, Forms1),
     container(spacer(1, 1), 4, 4, middle), flow(down, <<spacer(1, 2)>>).value,
     clear(spacer(2, 2), black)}

\* stack holds the numbers the builder was called with
Resized(op, numbers, e) ==
    /\ stack' = numbers
    /\ root' = e
    /\ last' = Call(op, "", <<root>>, Ok(e))
    /\ UNCHANGED <<renderer, log>>

Width ==
    /\ ~Drawn
    /\ \E n \in Dims : Resized("width", <<n>>, width(root, n))

Height ==
    /\ ~Drawn
    /\ \E n \in Dims : Resized("height", <<n>>, height(root, n))

Size ==
    /\ ~Drawn
    /\ \E w \in Dims, h \in Dims : Resized("size", <<w, h>>, size(root, w, h))

InitSize ==
    /\ stack = <<>>
    /\ last = NoCall
    /\ root \in SizeElements
    /\ renderer = PlainRenderer
    /\ log = <<>>

NextSize == Width \/ Height \/ Size

SpecSize == InitSize /\ [][NextSize]_vars


----------------------------------------------------------------------------
(* The caller: building a Text; root is the Text, stack the argument of the *)
(* builder called last                                                      *)

Strings == <<"hi", "yo", "you">>

Styled(op, argument, t) ==
    /\ stack' = argument
    /\ root' = t
    /\ last' = [op |-> op, dir |-> "", args |-> <<root>>, panicked |-> FALSE,
                result |-> empty]
    /\ UNCHANGED <<renderer, log>>

AppendText ==
    /\ Len(root.sequence) < MaxUnits
    /\ Styled("append", <<>>,
              append(root, from_string(Strings[Len(root.sequence) + 1])))

Typeface ==
    /\ ~Drawn
    /\ Styled("typeface", <<"font.ttf">>, Text_typeface(root, "font.ttf"))

Monospace ==
    /\ ~Drawn
    /\ Styled("monospace", <<>>, Text_monospace(root))

TextHeight ==
    /\ ~Drawn
    /\ \E h \in {20, 6} : Styled("height", <<h>>, Text_height(root, h))

Color ==
    /\ ~Drawn
    /\ Styled("color", <<white>>, Text_color(root, white))

Bold ==
    /\ ~Drawn
    /\ Styled("bold", <<>>, Text_bold(root))

Italic ==
    /\ ~Drawn
    /\ Styled("italic", <<>>, Text_italic(root))

Line ==
    /\ ~Drawn
    /\ Styled("line", <<"Under">>, Text_line(root, "Under"))

InitText ==
    /\ stack = <<>>
    /\ last = NoCall
    /\ root = from_string(Strings[1])
    /\ renderer = PlainRenderer
    /\ log = <<>>

NextText ==
    \/ AppendText
    \/ Typeface \/ Monospace \/ TextHeight \/ Color \/ Bold \/ Italic \/ Line

SpecText == InitText /\ [][NextText]_vars


----------------------------------------------------------------------------
(* Specification SpecColor: a colour in either representation, converted
   and complemented.  stack holds the colour given, root the colour it has
   become, log the conversions taken. *)

MaxConversions == 2

Hues == {degrees(FInt(d)) : d \in {0, 90, 200, 1620, 400, 0 - 30}}
Levels == {FInt(0), Quarter, Half, One}
Alphas == {One, Half}

Colors ==
    {rgba(r, g, b, One) : r \in Bytes, g \in Bytes, b \in Bytes}
        \cup {Color_Hsla(h, s, l, a) :
                 h \in Hues, s \in Levels, l \in Levels, a \in Alphas}

Converted(op, c) ==
    /\ Len(log) < MaxConversions
    /\ root' = c
    /\ log' = Append(log, op)
    /\ last' = [op |-> op, dir |-> "", args |-> <<root>>, panicked |-> FALSE,
                result |-> empty]
    /\ UNCHANGED <<stack, renderer>>

Complement ==
    /\ ~Drawn
    /\ Converted("complement", complement(root))

ToHsl ==
    /\ ~Drawn
    /\ Converted("to_hsl", to_hsl(root))

ToRgb ==
    /\ ~Drawn
    /\ \E c \in to_rgb(root) : Converted("to_rgb", c)

InitColor ==
    /\ \E c \in Colors : stack = <<c>> /\ root = c
    /\ last = NoCall
    /\ renderer = PlainRenderer
    /\ log = <<>>

NextColor == Complement \/ ToHsl \/ ToRgb

SpecColor == InitColor /\ [][NextColor]_vars

----------------------------------------------------------------------------
(* Specification SpecShape: shapes made by the builders of form.rs, given
   a style, and drawn as the Forms of one group.  root holds the Shape
   last made, stack the Forms made of the shapes so far. *)

MaxForms == 2

ShapeDims == {40, 60}
Radii == {0, 5}
Sides == {0, 1, 3, 4}

ShapeMade(op, args, shape) ==
    /\ ~Drawn
    /\ root' = shape
    /\ last' = [op |-> op, dir |-> "", args |-> args, panicked |-> FALSE,
                result |-> empty]
    /\ UNCHANGED <<stack, renderer, log>>

MakeRect ==
    /\ Len(stack) < MaxForms
    /\ \E w, h \in ShapeDims : ShapeMade("rect", <<w, h>>, rect(w, h))

MakeSquare ==
    /\ Len(stack) < MaxForms
    /\ \E n \in ShapeDims : ShapeMade("square", <<n>>, square(n))

MakeOval ==
    /\ Len(stack) < MaxForms
    /\ \E w, h \in ShapeDims : ShapeMade("oval", <<w, h>>, oval(w, h))

MakeCircle ==
    /\ Len(stack) < MaxForms
    /\ \E r \in Radii : ShapeMade("circle", <<r>>, circle(r))

MakeNgon ==
    /\ Len(stack) < MaxForms
    /\ \E n \in Sides, r \in Radii : ShapeMade("ngon", <<n, r>>, ngon(n, r))

IsShape == last.op \in {"rect", "square", "oval", "circle", "ngon"}

Styled2(op, args, forms) ==
    /\ ~Drawn
    /\ stack' = forms
    /\ last' = [op |-> op, dir |-> "", args |-> args, panicked |-> FALSE,
                result |-> empty]
    /\ UNCHANGED <<root, renderer, log>>

Filled ==
    /\ IsShape
    /\ Styled2("filled", <<root>>, Append(stack, filled(root, blue)))

Outlined ==
    /\ IsShape
    /\ Styled2("outlined", <<root>>, Append(stack, outlined(root, solid(red))))

ShiftFirst ==
    /\ Len(stack) = 1 /\ stack[1].x = 0 /\ stack[1].theta = 0
    /\ Styled2("shift", <<stack[1]>>, <<shift(stack[1], 20, 0)>>)

RotateFirst ==
    /\ Len(stack) = 1 /\ stack[1].theta = 0
    /\ \E q \in 1..2 :
          Styled2("rotate", <<stack[1]>>, <<rotate(stack[1], q)>>)

\* collage(w, h, vec![group(forms)]) and Element::draw
DrawGroup ==
    /\ ~Drawn
    /\ stack # <<>>
    /\ root' = collage(8, 8, <<group(stack)>>)
    /\ log' = Element_draw(root', renderer)
    /\ last' = [op |-> "draw", dir |-> "", args |-> <<>>,
                panicked |-> Panicked(log'), result |-> root']
    /\ UNCHANGED <<stack, renderer>>

InitShape ==
    /\ stack = <<>>
    /\ last = NoCall
    /\ root = polygon(<<>>)
    /\ renderer = PlainRenderer
    /\ log = <<>>

NextShape ==
    \/ MakeRect \/ MakeSquare \/ MakeOval \/ MakeCircle \/ MakeNgon
    \/ Filled \/ Outlined \/ ShiftFirst \/ RotateFirst
    \/ DrawGroup

SpecShape == InitShape /\ [][NextShape]_vars

----------------------------------------------------------------------------
(* Specification SpecJoin: a list of Texts put together by concat and by
   join.  stack holds the list, root the Text made of it. *)

MaxTexts == 3

JoinTexts ==
    {from_string("hi"), Text_bold(from_string("yo")),
     append(from_string("hi"), Text_italic(from_string("you")))}
Separators == {from_string(", "), Text_bold(from_string("-"))}

PushText ==
    /\ Len(stack) < MaxTexts
    /\ \E t \in JoinTexts :
          /\ stack' = Append(stack, t)
          /\ last' = [op |-> "push", dir |-> "", args |-> <<t>>,
                      panicked |-> FALSE, result |-> empty]
    /\ UNCHANGED <<root, renderer, log>>

Concat ==
    /\ ~Drawn
    /\ root' = concat(stack)
    /\ last' = [op |-> "concat", dir |-> "", args |-> <<stack>>,
                panicked |-> FALSE, result |-> empty]
    /\ UNCHANGED <<stack, renderer, log>>

Join ==
    /\ ~Drawn
    /\ \E separator \in Separators :
          /\ root' = join(separator, stack)
          /\ last' = [op |-> "join", dir |-> "", args |-> <<separator, stack>>,
                      panicked |-> FALSE, result |-> empty]
    /\ UNCHANGED <<stack, renderer, log>>

InitJoin ==
    /\ stack = <<>>
    /\ last = NoCall
    /\ root = Text_empty
    /\ renderer = PlainRenderer
    /\ log = <<>>

NextJoin == PushText \/ Concat \/ Join

SpecJoin == InitJoin /\ [][NextJoin]_vars

----------------------------------------------------------------------------
(* Specification SpecScissor: crops nested in Containers, among them a
   crop that reaches beyond the u16 range, drawn by a build with and by a
   build without overflow checks. *)

\* the whole view, its middle, one reaching below and left of the view,
\* and one from the right edge of the view to 65540
ScissorCrops ==
    {<<0, 0, 8, 8>>, <<0, 0, 4, 4>>, <<-5, -5, 4, 4>>, <<3, 0, 2, 8>>,
     <<32770, 0, 65532, 8>>}

SetScissorCrop ==
    /\ root.props.crop = None
    /\ \E c \in ScissorCrops :
           Rebuilt("crop", "", <<root>>, crop(root, c[1], c[2], c[3], c[4]))

DrawBuild ==
    /\ ~Drawn
    /\ \E checks \in BOOLEAN :
          LET l == Element_draw(root, renderer)
          IN  /\ log' = IF checks
                        THEN overflow_checks(l, root, renderer.context)
                        ELSE l
              /\ last' = [op |-> "draw", dir |-> "", args |-> <<root, checks>>,
                          panicked |-> Panicked(log'), result |-> root]
    /\ UNCHANGED <<stack, root, renderer>>

NextScissor ==
    \/ SetScissorCrop
    \/ WrapContainer({middle})
    \/ WrapClear
    \/ DrawBuild

SpecScissor == InitCrop /\ [][NextScissor]_vars

----------------------------------------------------------------------------
(* Specification SpecMatrix: transforms built by transform_2d.rs and
   combined with multiply.  stack holds the operands, root the last
   transform made, log the products taken so far. *)

MaxOperands == 3
MaxProducts == 1

Offsets == {-1, 2}
Factors == {2, 3}
Entries == {0, 1}

Made(op, args, m) ==
    /\ Len(stack) < MaxOperands
    /\ stack' = Append(stack, m)
    /\ root' = m
    /\ last' = [op |-> op, dir |-> "", args |-> args, panicked |-> FALSE,
                result |-> empty]
    /\ UNCHANGED <<renderer, log>>

Identity ==
    /\ ~Drawn
    /\ Made("identity", <<>>, identity)

Matrix ==
    /\ ~Drawn
    /\ \E b, c \in Entries :
          Made("matrix", <<1, b, c, 1, 0, 0>>, matrix(1, b, c, 1, 0, 0))

Rotation ==
    /\ ~Drawn
    /\ \E q \in 1..3 : Made("rotation", <<q>>, rotation(q))

Translation ==
    /\ ~Drawn
    /\ \E x, y \in Offsets : Made("translation", <<x, y>>, translation(x, y))

ScaleBy ==
    /\ ~Drawn
    /\ \E s \in Factors : Made("scale", <<s>>, scale(s))

Multiply ==
    /\ Len(stack) >= 2
    /\ Len(log) < MaxProducts
    /\ LET m == stack[Len(stack) - 1]
           n == stack[Len(stack)]
       IN  /\ stack' = Append(Pop(2), multiply(m, n))
           /\ root' = multiply(m, n)
           /\ last' = [op |-> "multiply", dir |-> "", args |-> <<m, n>>,
                       panicked |-> FALSE, result |-> empty]
           /\ log' = Append(log, "multiply")
    /\ UNCHANGED renderer

InitMatrix ==
    /\ stack = <<>>
    /\ last = NoCall
    /\ root = identity
    /\ renderer = PlainRenderer
    /\ log = <<>>

NextMatrix ==
    \/ Identity \/ Matrix \/ Rotation \/ Translation \/ ScaleBy
    \/ Multiply

SpecMatrix == InitMatrix /\ [][NextMatrix]_vars

----------------------------------------------------------------------------
(* Properties of the builders *)

Range(s) == {s[i] : i \in DOMAIN s}
MaxOf(S) == CHOOSE m \in S : \A x \in S : x <= m
RECURSIVE SumOf(_)
SumOf(s) ==
    IF s = <<>> THEN 0 ELSE s[Len(s)] + SumOf(SubSeq(s, 1, Len(s) - 1))

\* C1: flow(dir, children) of a non-empty list does not panic and is as wide
\* as the widest child and as high as all children together for Up and Down,
\* as wide as all children together and as high as the highest for Left and
\* Right, and as wide as the widest and as high as the highest for In and Out.
C1_FlowSize ==
    (last.op = "flow" /\ last.args # <<>>) =>
        LET ws == [i \in DOMAIN last.args |-> last.args[i].props.width]
            hs == [i \in DOMAIN last.args |-> last.args[i].props.height]
            w == last.result.props.width
            h == last.result.props.height
        IN  /\ ~last.panicked
            /\ last.dir \in {"Up", "Down"} =>
                   w = MaxOf(Range(ws)) /\ h = SumOf(hs)
            /\ last.dir \in {"Left", "Right"} =>
                   w = SumOf(ws) /\ h = MaxOf(Range(hs))
            /\ last.dir \in {"In", "Out"} =>
                   w = MaxOf(Range(ws)) /\ h = MaxOf(Range(hs))

\* a Down flow of two children of different widths and heights was built
C1_Witness ==
    /\ last.op = "flow" /\ last.dir = "Down" /\ Len(last.args) = 2
    /\ last.args[1].props.width # last.args[2].props.width
    /\ last.args[1].props.height # last.args[2].props.height
    /\ last.result.props.height = 3

\* C2: flow(dir, []) for every direction, and layers([]), return an element
\* of width 0 and height 0 and do not panic.
C2_EmptyListZeroSize ==
    (last.op \in {"flow", "layers"} /\ last.args = <<>>) =>
        /\ ~last.panicked
        /\ last.result.props.width = 0
        /\ last.result.props.height = 0

\* flow(In, []) was called
C2_Witness ==
    last.op = "flow" /\ last.dir = "In" /\ last.args = <<>> /\ ~last.panicked

\* C3: a.above(b) is the element flow(Down, [a, b]) builds, a.below(b) is
\* the element b.above(a) builds, and a.beside(b) is the element
\* flow(Right, [a, b]) builds: same size, direction and child order.
C3_AboveBelowBesideAreFlows ==
    LET a == last.args[1]
        b == last.args[2]
    IN  /\ last.op = "above" =>
               /\ ~flow("Down", <<a, b>>).panicked
               /\ last.result = flow("Down", <<a, b>>).value
        /\ last.op = "below" => last.result = above(b, a)
        /\ last.op = "beside" =>
               /\ ~flow("Right", <<a, b>>).panicked
               /\ last.result = flow("Right", <<a, b>>).value

\* a.above(b) was called with two different elements
C3_Witness ==
    /\ last.op = "above"
    /\ last.args[1] # last.args[2]
    /\ last.result.element.elements = last.args

----------------------------------------------------------------------------
(* Properties of the draw traversal *)

RECURSIVE ElementAt(_, _)
ElementAt(e, path) ==
    IF path = <<>> THEN e
    ELSE ElementAt(e.element.elements[Head(path)], Tail(path))

Front(s) == SubSeq(s, 1, Len(s) - 1)
IsPrefix(q, s) == Len(q) <= Len(s) /\ SubSeq(s, 1, Len(q)) = q
Abs(n) == IF n < 0 THEN 0 - n ELSE n

ElementEvents == {i \in DOMAIN log : log[i].ev = "element"}
FormEvents == {i \in DOMAIN log : log[i].ev = "form"}
DrawCalls == {i \in DOMAIN log : log[i].ev \in {"line", "polygon", "text"}}
BackendCalls == DrawCalls \cup {i \in DOMAIN log : log[i].ev = "clear"}
IndexOf(path) == CHOOSE i \in ElementEvents : log[i].path = path

\* C4: in a drawn Up, Down, Left or Right Flow, consecutive children i and
\* i+1 are drawn at positions whose distance along the flow axis is half the
\* extent of child i plus half the extent of child i+1.
C4_FlowSlotsEdgeToEdge ==
    (Drawn /\ ~last.panicked) =>
        \A i \in ElementEvents :
            LET el == ElementAt(root, log[i].path)
                es == el.element.elements
                vertical == el.element.dir \in {"Up", "Down"}
                extent(e) == IF vertical THEN e.props.height ELSE e.props.width
                at(k) == LET m == log[IndexOf(log[i].path \o <<k>>)].matrix
                         IN  IF vertical THEN m[2][3] ELSE m[1][3]
            IN  (el.element.kind = "Flow"
                     /\ el.element.dir \in {"Up", "Down", "Left", "Right"}) =>
                    \A k \in 1..(Len(es) - 1) :
                        \* half-pixels: e / 2 pixels is e half-pixels
                        Abs(at(k + 1) - at(k)) = extent(es[k]) + extent(es[k + 1])

\* C5: a drawn In Flow visits its children in the reverse of their list
\* order, a drawn Out Flow in list order, and every child is drawn with the
\* transform the Flow itself has.
C5_LayerOrder ==
    (Drawn /\ ~last.panicked) =>
        \A i \in ElementEvents :
            LET el == ElementAt(root, log[i].path)
                n == Len(el.element.elements)
                at(k) == IndexOf(log[i].path \o <<k>>)
            IN  (el.element.kind = "Flow" /\ el.element.dir \in {"In", "Out"}) =>
                    /\ \A k \in 1..n : log[at(k)].matrix = log[i].matrix
                    /\ \A k \in 1..(n - 1) :
                           IF el.element.dir = "In" THEN at(k) > at(k + 1)
                           ELSE at(k) < at(k + 1)

\* an In Flow of three different children was drawn
C5_Witness ==
    /\ Drawn
    /\ \E i \in ElementEvents :
           LET el == ElementAt(root, log[i].path)
           IN  /\ el.element.kind = "Flow" /\ el.element.dir = "In"
               /\ Len(el.element.elements) = 3
               /\ el.element.elements[1] # el.element.elements[3]
               /\ IndexOf(log[i].path \o <<3>>) < IndexOf(log[i].path \o <<1>>)

\* the product of the opacity properties from e down to the node at path
RECURSIVE PathOpacity(_, _)
PathOpacity(e, path) ==
    IF path = <<>> THEN e.props.opacity
    ELSE FMul(e.props.opacity,
              PathOpacity(e.element.elements[Head(path)], Tail(path)))

\* the same product without the opacity properties of the Cleared nodes
RECURSIVE PathOpacityPastCleared(_, _)
PathOpacityPastCleared(e, path) ==
    LET own == IF e.element.kind = "Cleared" THEN One ELSE e.props.opacity
    IN  IF path = <<>> THEN own
        ELSE FMul(own, PathOpacityPastCleared(e.element.elements[Head(path)],
                                              Tail(path)))

\* the events of the Forms a Collage hands to draw_form
CollageForms ==
    {i \in FormEvents :
        \E j \in ElementEvents :
            log[j].kind = "Collage" /\ log[j].path = Front(log[i].path)}

\* C6, as stated: the opacity handed to the Forms of every drawn Collage is
\* the product of the opacity properties of the Collage and of every
\* ancestor on the path from the root.
C6_OpacityProductOfAllAncestors ==
    Drawn =>
        \A i \in CollageForms :
            log[i].opacity = PathOpacity(root, Front(log[i].path))

\* C6, amended: the opacity handed to the Forms of every drawn Collage is
\* the product of the opacity properties of the Collage and of its Container
\* and Flow ancestors; a Cleared ancestor hands on the opacity it was given,
\* its own opacity property is no factor.
C6_OpacityProductPastCleared ==
    Drawn =>
        \A i \in CollageForms :
            log[i].opacity = PathOpacityPastCleared(root, Front(log[i].path))

\* a Collage of opacity 1/2 under a Cleared of opacity 1/2 under a root of
\* opacity 1/2 that is not a Cleared was drawn: its Forms got 1/4, not 1/8
C6_Witness ==
    /\ Drawn
    /\ \E i \in CollageForms :
           /\ log[i].opacity = Quarter
           /\ Len(log[i].path) = 3
           /\ PathOpacity(root, Front(log[i].path)) = Dy(1, 3)

\* C7: every primitive of a drawn Collage's Form is emitted with alpha =
\* the colour's stored alpha * the Form's alpha * the opacity O handed to
\* the Form.
C7_AlphaTimesOpacity ==
    Drawn =>
        \A i \in DrawCalls :
            LET collage_el == ElementAt(root, Front(log[i].path))
                f == collage_el.element.forms[log[i].path[Len(log[i].path)]]
                base == IF log[i].ev = "polygon" THEN f.form.color
                        ELSE f.form.line.color
            IN  log[i].color.a = FMul(FMul(base.a, f.alpha), log[i].opacity)

\* C8: two Positions that differ only in an anchor give the child of a
\* drawn Container different translations.
C8_AnchorMovesChild ==
    Drawn =>
        \A i \in ElementEvents :
            LET el == ElementAt(root, log[i].path)
                child == log[IndexOf(log[i].path \o <<1>>)]
                context == Context(log[i].matrix, renderer.context.view,
                                   renderer.context.viewport, log[i].scissor)
            IN  el.element.kind = "Container" =>
                    \A h \in Threes, v \in Threes :
                        <<h, v>> # <<el.element.pos.horizontal,
                                     el.element.pos.vertical>> =>
                            container_context(
                                p(h, v, el.element.pos.x, el.element.pos.y),
                                context).transform # child.matrix

----------------------------------------------------------------------------
(* Properties of crop and scissor *)

\* the scissor in force where the element at path is drawn
ParentScissor(path) ==
    IF path = <<>> THEN renderer.context.scissor
    ELSE log[IndexOf(Front(path))].scissor

Min2(a, b) == IF a < b THEN a ELSE b
Max2(a, b) == IF a > b THEN a ELSE b

\* the two rectangles share no point
Disjoint(a, b) ==
    \/ a.x + a.w < b.x \/ b.x + b.w < a.x
    \/ a.y + a.h < b.y \/ b.y + b.h < a.y

\* the rectangle of the points that the rectangles a and b share
Intersection(a, b) ==
    Rect(Max2(a.x, b.x), Max2(a.y, b.y),
         Min2(a.x + a.w, b.x + b.w) - Max2(a.x, b.x),
         Min2(a.y + a.h, b.y + b.h) - Max2(a.y, b.y))

\* the drawn elements that have a crop and an ancestor's scissor in force
CroppedUnderScissor ==
    {i \in ElementEvents :
        /\ ElementAt(root, log[i].path).props.crop # None
        /\ ParentScissor(log[i].path) # None}

\* C9: an element with a crop, drawn under an ancestor's scissor, passes on
\* the intersection of its converted crop and that scissor, a scissor with
\* w = 0 and h = 0 when the two are disjoint, and the draw does not panic.
C9_ScissorIsIntersection ==
    Drawn =>
        /\ ~last.panicked
        /\ \A i \in CroppedUnderScissor :
               LET a == convert_crop(ElementAt(root, log[i].path).props.crop[1],
                                     renderer.context)
                   b == ParentScissor(log[i].path)[1]
               IN  /\ log[i].scissor # None
                   /\ IF Disjoint(a, b)
                      THEN log[i].scissor[1].w = 0 /\ log[i].scissor[1].h = 0
                      ELSE log[i].scissor[1] = Intersection(a, b)

\* C10: below an element whose converted crop lies outside the scissor in
\* force, the draw makes no call to the backend.
C10_OutsideCropNoBackendCalls ==
    Drawn =>
        \A i \in CroppedUnderScissor :
            LET a == convert_crop(ElementAt(root, log[i].path).props.crop[1],
                                  renderer.context)
                b == ParentScissor(log[i].path)[1]
            IN  Disjoint(a, b) =>
                    \A j \in BackendCalls : ~IsPrefix(log[i].path, log[j].path)

----------------------------------------------------------------------------
(* Properties of the Form traversal *)

\* the Form at path below a list of Forms; below the Form of an Element
\* the path goes on through the Element to the Forms of its Collage
RECURSIVE FormIn(_, _)
FormIn(forms, path) ==
    IF Len(path) = 1 THEN forms[path[1]]
    ELSE IF forms[Head(path)].form.kind = "Element"
         THEN FormIn(forms[Head(path)].form.element[1].element.forms,
                     Tail(Tail(path)))
    ELSE FormIn(forms[Head(path)].form.forms, Tail(path))

\* the Form a log entry belongs to, and the entry made on entering it
FormOf(i) == FormIn(root.element.forms, log[i].path)
FormIndex(path) == CHOOSE i \in FormEvents : log[i].path = path

\* M * translation(x, y) * scale(s) * rotation(theta) for the Form of entry i
\* and the matrix M it was entered with
NodeMatrix(i) ==
    LET f == FormOf(i)
        mt == multiply(log[FormIndex(log[i].path)].matrix, translation(f.x, f.y))
        ms == multiply(mt, scale(f.scale))
    IN  multiply(ms, rotation(f.theta))

\* the matrix of the primitives of a Text: the node's, mirrored in y, moved
\* left by half the width of all units and by a third of the greatest height
TextMatrix(i) ==
    LET units == FormOf(i).form.units
        glyph == renderer.maybe_character_cache[1]
        total_width == SumOf([k \in DOMAIN units |-> glyph * Len(units[k].string)])
        max_height == MaxOf({0} \cup {units[k].height[1] : k \in DOMAIN units})
    IN  translated(multiply(NodeMatrix(i), scale_xy(1, -1)),
                   Q(0 - total_width, 1), Q(2 * max_height, 3))

\* shift, scale and rotate give the same Form in whichever order they are called
BuildersCommute(f) ==
    \A dx \in {-1, 2}, dy \in {0, 1}, s \in {2, 3}, q \in {1, 2} :
        /\ Form_scale(shift(f, dx, dy), s) = shift(Form_scale(f, s), dx, dy)
        /\ rotate(shift(f, dx, dy), q) = shift(rotate(f, q), dx, dy)
        /\ rotate(Form_scale(f, s), q) = Form_scale(rotate(f, q), s)
        /\ shift(shift(f, dx, dy), 1, 1) = shift(shift(f, 1, 1), dx, dy)

\* C11, as stated: every primitive of a drawn Form is emitted with the
\* matrix M * translation(x, y) * scale(s) * rotation(theta), whatever the
\* order of the builder calls.
C11_EveryPrimitiveNodeMatrix ==
    /\ BuildersCommute(stack[1])
    /\ Drawn => \A i \in DrawCalls : log[i].matrix = NodeMatrix(i)

\* C11, amended: every line and polygon of a drawn Form is emitted with the
\* matrix M * translation(x, y) * scale(s) * rotation(theta), and every unit
\* of a Text with that matrix times scale_y(-1) times the translation that
\* centres the text, whatever the order of the builder calls.
C11_NodeMatrixTextCentred ==
    /\ BuildersCommute(stack[1])
    /\ Drawn =>
           \A i \in DrawCalls :
               log[i].matrix = IF log[i].ev = "text" THEN TextMatrix(i)
                               ELSE NodeMatrix(i)

\* a shifted, scaled and rotated Form was drawn as lines or as a polygon,
\* and a rotation before the shift would have put it elsewhere
C11_Witness ==
    /\ Drawn
    /\ \E i \in DrawCalls :
           /\ log[i].ev # "text"
           /\ FormOf(i).x # 0 /\ FormOf(i).scale # 1 /\ FormOf(i).theta # 0
           /\ log[i].matrix #
                  multiply(multiply(multiply(log[FormIndex(log[i].path)].matrix,
                                             rotation(FormOf(i).theta)),
                                    scale(FormOf(i).scale)),
                           translation(FormOf(i).x, FormOf(i).y))

\* the entries made on entering a Group
GroupEvents == {i \in FormEvents : FormOf(i).form.kind = "Group"}
Entered(path) == \E i \in FormEvents : log[i].path = path

\* C12: the children of a drawn Group are entered in list order, each with
\* the matrix multiply(M', groupMatrix) of the Group, whatever transform
\* fields its siblings have.
C12_GroupChildrenSameMatrix ==
    Drawn =>
        \A g \in GroupEvents :
            LET path == log[g].path
                children == FormOf(g).form.forms
                m2 == multiply(NodeMatrix(g), FormOf(g).form.matrix)
            IN  /\ \A k \in DOMAIN children :
                       Entered(path \o <<k>>) =>
                           /\ log[FormIndex(path \o <<k>>)].matrix = m2
                           /\ k > 1 =>
                                  /\ Entered(path \o <<k - 1>>)
                                  /\ FormIndex(path \o <<k - 1>>)
                                         < FormIndex(path \o <<k>>)
                /\ ~last.panicked =>
                       \A k \in DOMAIN children : Entered(path \o <<k>>)

\* a shifted Group with a matrix of its own was drawn, its first child a
\* shifted and scaled Form, its second child entered after it
C12_Witness ==
    /\ Drawn
    /\ \E g \in GroupEvents :
           /\ FormOf(g).form.matrix # identity
           /\ FormOf(g).x # 0
           /\ Len(FormOf(g).form.forms) = 2
           /\ FormOf(g).form.forms[1] = Sibling
           /\ Entered(log[g].path \o <<2>>)

\* the stored alphas a primitive of the Form of entry i can start from
BaseAlphas(i) ==
    LET f == FormOf(i).form
    IN  IF log[i].ev = "polygon" THEN {f.color.a}
        ELSE IF log[i].ev = "line" THEN {f.line.color.a}
        ELSE {f.units[k].color.a : k \in DOMAIN f.units}

\* the Forms that enclose the Form of entry i
Enclosing(i) ==
    {FormIn(root.element.forms, SubSeq(log[i].path, 1, n)) :
        n \in {k \in 1..(Len(log[i].path) - 1) :
                  Entered(SubSeq(log[i].path, 1, k))}}

\* C13: every primitive of a drawn Form is emitted with the colour's alpha
\* times the alpha of its own Form node; the alphas of the Groups that
\* enclose the node are no factor.
C13_OwnAlphaOnly ==
    Drawn =>
        \A i \in DrawCalls :
            \E base \in BaseAlphas(i) :
                log[i].color.a = FMul(base, FormOf(i).alpha)

\* a primitive was drawn from a Form of alpha 1 two Groups deep, a Group
\* around it having alpha 1/2
C13_Witness ==
    /\ Drawn
    /\ \E i \in DrawCalls :
           /\ Len(log[i].path) = 3
           /\ FormOf(i).alpha = One
           /\ log[i].color.a = One
           /\ \E g \in Enclosing(i) : g.alpha = Half

\* texture fill, gradient fill, sprite and outlined text
Unsupported(f) ==
    \/ f.form.kind = "Shape" /\ f.form.style = "Fill"
           /\ f.form.fill \in {"Texture", "Grad"}
    \/ f.form.kind \in {"Image", "OutlinedText"}

\* the draw panicked in the Form of entry i, before anything else was done
PanickedAt(i) ==
    /\ last.panicked
    /\ i + 1 = Len(log)
    /\ log[i + 1].ev = "panic"
    /\ log[i + 1].path = log[i].path

\* C14: a draw that reaches a texture-filled or gradient-filled Shape, a
\* sprite or an OutlinedText panics there, with a character cache and without.
C14_UnsupportedFormsPanic ==
    Drawn => \A i \in FormEvents : Unsupported(FormOf(i)) => PanickedAt(i)

\* an OutlinedText was reached after its sibling was drawn, with a
\* character cache, and the draw panicked
C14_Witness ==
    /\ Drawn
    /\ renderer.maybe_character_cache # None
    /\ \E i \in FormEvents :
           /\ FormOf(i).form.kind = "OutlinedText"
           /\ \E j \in DrawCalls : j < i
           /\ PanickedAt(i)

\* a traced path or an outlined Shape whose LineStyle has a dash pattern
Dashed(f) ==
    /\ \/ f.form.kind = "PointPath"
       \/ f.form.kind = "Shape" /\ f.form.style = "Line"
    /\ f.form.line.dashing # <<>>

\* C15: a draw that reaches a traced path or an outlined Shape with a
\* non-empty dash pattern panics there.
C15_DashedLinesPanic ==
    Drawn => \A i \in FormEvents : Dashed(FormOf(i)) => PanickedAt(i)

\* a log without the calls that draw text
WithoutText(l) == LET other(e) == e.ev # "text" IN SelectSeq(l, other)

\* C16: without a character cache a drawn Text makes no call and no panic,
\* and the log is the one the same draw makes with a character cache, the
\* text calls taken out.
C16_TextSkippedWithoutCache ==
    (Drawn /\ renderer.maybe_character_cache = None) =>
        /\ \A i \in DOMAIN log : log[i].ev # "text"
        /\ \A i \in FormEvents :
               FormOf(i).form.kind = "Text" =>
                   /\ \A j \in DOMAIN log :
                          log[j].path = log[i].path => log[j].ev = "form"
        /\ log = WithoutText(Element_draw(root, CachedRenderer))

\* without a character cache, a Text was entered and the sibling that
\* follows it in its Group was drawn
C16_Witness ==
    /\ Drawn
    /\ renderer.maybe_character_cache = None
    /\ \E i \in FormEvents :
           /\ FormOf(i).form.kind = "Text"
           /\ FormOf(i).form.units # <<>>
           /\ \E j \in DrawCalls : j > i /\ log[j].ev = "polygon"
    /\ \E k \in DOMAIN Element_draw(root, CachedRenderer) :
           Element_draw(root, CachedRenderer)[k].ev = "text"

\* an outlined or solid-filled Shape without vertices
NoVertices(f) ==
    /\ f.form.kind = "Shape"
    /\ f.form.style = "Line" \/ f.form.fill = "Solid"
    /\ f.form.points = <<>>

CallsOf(i) == {j \in DrawCalls : log[j].path = log[i].path}
PanicsOf(i) ==
    {j \in DOMAIN log : log[j].ev = "panic" /\ log[j].path = log[i].path}

\* C17, as stated: a drawn Shape with 0 vertices, outlined or solid-filled,
\* makes no draw call and no panic.
C17_NoVerticesNoCall ==
    Drawn =>
        \A i \in FormEvents :
            NoVertices(FormOf(i)) => CallsOf(i) = {} /\ PanicsOf(i) = {}

\* C17, amended: a drawn Shape with 0 vertices makes no panic; outlined it
\* makes no draw call, solid-filled it makes the one polygon call of a
\* filled Shape, with the empty list of points.
C17_NoVerticesNoLine ==
    Drawn =>
        \A i \in FormEvents :
            NoVertices(FormOf(i)) =>
                /\ PanicsOf(i) = {}
                /\ FormOf(i).form.style = "Line" => CallsOf(i) = {}
                /\ FormOf(i).form.style = "Fill" =>
                       /\ Cardinality(CallsOf(i)) = 1
                       /\ \A j \in CallsOf(i) : log[j].ev = "polygon"

\* an outlined Shape with 0 vertices was entered, and the sibling after it
\* was drawn
C17_Witness ==
    /\ Drawn
    /\ ~last.panicked
    /\ \E i \in FormEvents :
           /\ NoVertices(FormOf(i))
           /\ FormOf(i).form.style = "Line"
           /\ \E j \in DrawCalls : j > i

----------------------------------------------------------------------------
(* Properties of width, height and size *)

\* C18: e.width(n) has width n, e.height(n) has height n and e.size(w, h)
\* has the size (w, h).
C18_ResizeSetsDimension ==
    /\ last.op = "width" => get_width(last.result) = stack[1]
    /\ last.op = "height" => get_height(last.result) = stack[1]
    /\ last.op = "size" => get_size(last.result) = <<stack[1], stack[2]>>

\* C19: width(n) on an Image or Collage of intrinsic size (w, h) makes the
\* height round(h / w * n), height(n) makes the width round(w / h * n), and
\* on a Spacer, Container, Flow or Cleared both return the element as it was.
C19_ResizeKeepsAspect ==
    LET before == last.args[1]
        after == last.result
        w == before.element.w
        h == before.element.h
        n == stack[1]
        \* r is an integer nearest to a / b (a, b > 0): a / b is at most one
        \* half away from it
        nearest(r, a, b) == 2 * b * r - b <= 2 * a /\ 2 * a <= 2 * b * r + b
    IN  last.op \in {"width", "height"} =>
            IF before.element.kind \in {"Image", "Collage"}
            THEN IF last.op = "width"
                 THEN /\ nearest(after.props.height, h * n, w)
                      /\ after = [before EXCEPT
                                      !.props.height = after.props.height]
                 ELSE /\ nearest(after.props.width, w * n, h)
                      /\ after = [before EXCEPT
                                      !.props.width = after.props.width]
            ELSE after = before

\* width(1) was called on an Image or Collage twice as wide as high: the
\* height, 0.5 before rounding, became 1
C19_Witness ==
    /\ last.op = "width" /\ stack = <<1>>
    /\ last.args[1].element.kind \in {"Image", "Collage"}
    /\ last.args[1].element.w = 2 * last.args[1].element.h
    /\ last.result.props.height = 1
    /\ last.args[1].props.height # 1

----------------------------------------------------------------------------
(* Properties of the Text builders *)

StyleBuilders ==
    {"typeface", "monospace", "height", "color", "bold", "italic", "line"}

\* the value the builder called last gives its style field
StyleValue ==
    IF last.op \in {"monospace", "bold", "italic"} THEN TRUE
    ELSE IF last.op = "color" THEN stack[1]
    ELSE <<stack[1]>>

\* C20: color, height, bold, italic, line, monospace and typeface set their
\* style field on every unit of the Text and leave the number and order of
\* the units, their strings and their other style fields as they were.
C20_TextBuildersBroadcast ==
    last.op \in StyleBuilders =>
        LET before == last.args[1].sequence
            after == root.sequence
        IN  /\ Len(after) = Len(before)
            /\ root.position = last.args[1].position
            /\ \A i \in DOMAIN after :
                   /\ after[i].string = before[i].string
                   /\ after[i].style[last.op] = StyleValue
                   /\ \A g \in DOMAIN Style_default \ {last.op} :
                          after[i].style[g] = before[i].style[g]

\* height(20) was called on a Text of two units of different colours, the
\* first one white: both are 20 high and kept their colours
C20_Witness ==
    /\ last.op = "height" /\ stack = <<20>>
    /\ Len(root.sequence) = 2
    /\ root.sequence[1].style.color = white
    /\ root.sequence[2].style.color = black
    /\ root.sequence[2].style.height = <<20>>
    /\ last.args[1].sequence[2].style.height # <<20>>

----------------------------------------------------------------------------
(* Properties of transform_2d *)

\* The point a 2x3 matrix sends p to: (a*x + b*y + tx, c*x + d*y + ty).
MapPoint(m, pt) ==
    <<m[1][1] * pt[1] + m[1][2] * pt[2] + m[1][3],
      m[2][1] * pt[1] + m[2][2] * pt[2] + m[2][3]>>

Points == {<<0, 0>>, <<1, 0>>, <<0, 1>>, <<2, -1>>}

Operands == Range(stack)

\* C21: identity is a left and a right unit of multiply, and multiply is
\* associative, for all transforms M, N, P.
C21_MultiplyMonoid ==
    /\ \A M \in Operands :
          /\ multiply(identity, M) = M
          /\ multiply(M, identity) = M
    /\ \A M, N, P \in Operands :
          multiply(multiply(M, N), P) = multiply(M, multiply(N, P))
    /\ last.op = "multiply" =>
          /\ root = multiply(last.args[1], last.args[2])
          /\ multiply(identity, root) = root
          /\ multiply(root, identity) = root

\* three different operands, one of them a product of two transforms that
\* do not commute and that moves the origin
C21_Witness ==
    /\ Len(log) > 0
    /\ Len(stack) = 3
    /\ Cardinality(Operands) = 3
    /\ \E x, y \in Offsets, q \in 1..3 :
          stack[1] = multiply(translation(x, y), rotation(q))
    /\ multiply(stack[1], stack[2]) # multiply(stack[2], stack[1])
    /\ multiply(multiply(stack[1], stack[2]), stack[3])
          \notin {stack[1], stack[2], stack[3], identity}

\* C22 as stated: the point multiply(M, N) sends p to is the point N sends
\* M's image of p to (apply M, then N).
C22_MultiplyAppliesLeftFirst ==
    last.op = "multiply" =>
        \A pt \in Points :
            MapPoint(root, pt)
                = MapPoint(last.args[2], MapPoint(last.args[1], pt))

\* C22 amended: the point multiply(M, N) sends p to is the point M sends
\* N's image of p to (apply N, then M).
C22_MultiplyAppliesRightFirst ==
    /\ last.op = "multiply" =>
          \A pt \in Points :
              MapPoint(root, pt)
                  = MapPoint(last.args[1], MapPoint(last.args[2], pt))
    /\ \A M, N \in Operands : \A pt \in Points :
          MapPoint(multiply(M, N), pt) = MapPoint(M, MapPoint(N, pt))

\* a product of a translation and a rotation, which sends some point to
\* different places in the two orders
C22_Witness ==
    /\ last.op = "multiply"
    /\ \E pt \in Points :
          MapPoint(last.args[1], MapPoint(last.args[2], pt))
              # MapPoint(last.args[2], MapPoint(last.args[1], pt))
    /\ \E x, y \in Offsets, q \in 1..3 :
          last.args = <<translation(x, y), rotation(q)>>

----------------------------------------------------------------------------
(* Properties of color.rs *)

\* C23: a colour given as bytes r, g, b, taken to HSL by rgb_to_hsl and
\* back by hsl_to_rgb with each channel scaled by 255 and rounded, has each
\* channel within 1 of the byte given, greys, black and white included.
C23_RgbRoundTrip ==
    (~IsHsla(stack[1]) /\ log = <<"to_hsl", "to_rgb">>) =>
        /\ Abs(root.r - stack[1].r) <= 1
        /\ Abs(root.g - stack[1].g) <= 1
        /\ Abs(root.b - stack[1].b) <= 1

\* the hue of c, taken into one turn as hsla does
NormalHue(c) == hsla(to_hsl(c).h, to_hsl(c).s, to_hsl(c).l, c.a).h

\* hues a and b differ by no more than the rounding of f32 can account
\* for, as they are or across the end of the turn
HueTolerance == Dy(1, 16)
SameHue(a, b) ==
    \/ FLe(FAbs(FSub(a, b)), HueTolerance)
    \/ FLe(FAbs(FSub(FAbs(FSub(a, b)), turns(FInt(1)))), HueTolerance)

\* C24: the complement of the complement of c has the hue of c, taken into
\* [0, 2 PI), and the saturation, lightness and alpha of c, whether c is
\* given as RGB or as HSL.
C24_ComplementTwice ==
    log = <<"complement", "complement">> =>
        /\ FLe(FInt(0), root.h) /\ FLt(root.h, turns(FInt(1)))
        /\ SameHue(root.h, NormalHue(stack[1]))
        /\ FEq(root.s, to_hsl(stack[1]).s)
        /\ FEq(root.l, to_hsl(stack[1]).l)
        /\ root.a = stack[1].a

----------------------------------------------------------------------------
(* Properties of the shape builders *)

\* C25: rect(w, h) is (-w/2, -h/2), (-w/2, h/2), (w/2, h/2), (w/2, -h/2) in
\* that order, circle(r) is oval(2r, 2r), an oval has 49 vertices and
\* ngon(n, r) has n.
C25_ShapeVertices ==
    /\ last.op = "rect" =>
          /\ Len(root) = 4
          /\ \A i \in 1..4 :
                /\ 2 * root[i][1] = <<0 - 1, 0 - 1, 1, 1>>[i] * last.args[1]
                /\ 2 * root[i][2] = <<0 - 1, 1, 1, 0 - 1>>[i] * last.args[2]
    /\ last.op = "circle" =>
          /\ root = oval(2 * last.args[1], 2 * last.args[1])
          /\ Len(root) = 49
    /\ last.op = "oval" => Len(root) = 49
    /\ last.op = "ngon" => Len(root) = last.args[1]

\* an oval whose axes differ has been made, with its first vertex on the
\* x axis and its last vertex short of a full turn
C25_Witness ==
    /\ last.op = "oval"
    /\ last.args[1] # last.args[2]
    /\ root[1] = <<last.args[1] \div 2, 0>>
    /\ root[Len(root)][1].i = 48
    /\ \E k \in DOMAIN stack : Len(stack[k].form.points) \in {3, 4}

\* the scene of C26, turned by q quarter turns; the shift by 10 is 20 halves
Scene(q) ==
    <<rotate(shift(filled(rect(60, 40), blue), 20, 0), q),
      outlined(circle(5), solid(red))>>

SceneDrawn == Drawn /\ \E q \in 1..2 : stack = Scene(q)

\* the matrix the collage of the scene is drawn with, and onto it the shift
\* and the turn of the rectangle
SceneMatrix == log[1].matrix
RectMatrix ==
    multiply(SceneMatrix,
             multiply(translation(20, 0), rotation(stack[1].theta)))

\* C26 as stated: the drawn scene makes exactly two draw calls, the first
\* with the matrix translation(10, 0) * rotation and the colour blue, the
\* second with the identity matrix and the colour red.
C26_SceneTwoCalls ==
    SceneDrawn =>
        /\ Cardinality(DrawCalls) = 2
        /\ \E i, j \in DrawCalls :
              /\ i < j
              /\ log[i].matrix = RectMatrix
              /\ log[i].color = blue
              /\ log[j].matrix = multiply(SceneMatrix, identity)
              /\ log[j].color = red

\* C26 amended: the drawn scene makes one polygon call with the matrix
\* translation(10, 0) * rotation and the colour blue, and after it 49 line
\* calls, one for every edge of the circle's 49 vertices, each with the
\* identity matrix and the colour red.
C26_ScenePolygonAndEdges ==
    SceneDrawn =>
        /\ Cardinality(DrawCalls) = 50
        /\ \E i \in DrawCalls :
              /\ log[i].ev = "polygon"
              /\ log[i].matrix = RectMatrix
              /\ log[i].color = blue
              /\ \A j \in DrawCalls \ {i} :
                    /\ i < j
                    /\ log[j].ev = "line"
                    /\ log[j].matrix = multiply(SceneMatrix, identity)
                    /\ log[j].color = red

\* the scene has been drawn, and the shift and the turn of its rectangle do
\* not commute
C26_Witness ==
    /\ SceneDrawn
    /\ ~Panicked(log)
    /\ RectMatrix
          # multiply(SceneMatrix,
                     multiply(rotation(stack[1].theta), translation(20, 0)))

----------------------------------------------------------------------------
(* Properties of Cleared *)

ClearedEvents == {i \in ElementEvents : log[i].kind = "Cleared"}
ClearsOf(i) ==
    {j \in DOMAIN log : log[j].ev = "clear" /\ log[j].path = log[i].path}
\* the entries made in the subtree of the child of the node entered at i
ChildEntries(i) ==
    {k \in DOMAIN log : IsPrefix(log[i].path \o <<1>>, log[k].path)}

\* C27: a drawn Cleared(color, child) makes exactly one clear call, with
\* that colour, before everything drawn in the child's subtree, and the
\* child is drawn with the transform and the accumulated opacity that
\* reached the Cleared node.
C27_ClearedThenChild ==
    Drawn =>
        \A i \in ClearedEvents :
            /\ Cardinality(ClearsOf(i)) = 1
            /\ \A j \in ClearsOf(i) :
                  /\ i < j
                  /\ log[j].color = ElementAt(root, log[i].path).element.color
                  /\ \A k \in ChildEntries(i) : j < k
            /\ \E k \in ChildEntries(i) \cap ElementEvents :
                  /\ log[k].path = log[i].path \o <<1>>
                  /\ log[k].matrix = log[i].matrix
                  /\ log[k].opacity = log[i].opacity

\* a Cleared of opacity 1/2 was reached with opacity 1/2 and a matrix moved
\* by a Container, and draw calls were made under it
C27_Witness ==
    /\ Drawn
    /\ \E i \in ClearedEvents :
          /\ ElementAt(root, log[i].path).props.opacity = Half
          /\ ElementAt(root, log[i].path).element.color = blue
          /\ log[i].opacity = Half
          /\ log[i].matrix # log[1].matrix
          /\ ChildEntries(i) \cap DrawCalls # {}

----------------------------------------------------------------------------
(* Properties of Container *)

ContainerEvents == {i \in ElementEvents : log[i].kind = "Container"}
LinearPart(m) == <<<<m[1][1], m[1][2]>>, <<m[2][1], m[2][2]>>>>
Moves == {<<2, 0>>, <<0, 0 - 2>>, <<4, 6>>}

\* C28: the child of a drawn Container gets the incoming transform followed
\* by a translation, whatever the kinds of the Position's x and y, so that
\* an incoming transform translated by (dx, dy) gives a child transform
\* translated by (dx, dy).
C28_ContainerComposesTranslation ==
    Drawn =>
        \A i \in ContainerEvents :
            LET el == ElementAt(root, log[i].path)
                child == log[IndexOf(log[i].path \o <<1>>)]
                context(m) == Context(m, renderer.context.view,
                                      renderer.context.viewport,
                                      log[i].scissor)
            IN  /\ child.matrix
                      = container_context(el.element.pos,
                                          context(log[i].matrix)).transform
                /\ LinearPart(child.matrix) = LinearPart(log[i].matrix)
                /\ \A d \in Moves :
                      container_context(
                          el.element.pos,
                          context(multiply(translation(d[1], d[2]),
                                           log[i].matrix))).transform
                          = multiply(translation(d[1], d[2]), child.matrix)

----------------------------------------------------------------------------
(* Properties of Text::join *)

\* the units of t1, of the separator, of t2, ..., of tn
RECURSIVE Separated(_, _)
Separated(separator, texts) ==
    IF texts = <<>> THEN <<>>
    ELSE IF Len(texts) = 1 THEN texts[1].sequence
    ELSE texts[1].sequence \o separator.sequence
         \o Separated(separator, Tail(texts))

\* C29: the units of Text::join(separator, [t1, ..., tn]) are the units of
\* t1, of the separator, of t2, ..., of tn: no separator after the last
\* text and no unit before the first.
C29_JoinSeparatesTexts ==
    (last.op = "join" /\ last.args[2] # <<>>) =>
        root.sequence = Separated(last.args[1], last.args[2])

----------------------------------------------------------------------------
(* Properties of nested scissors *)

\* the elements entered before i on the way from the root to i
Ancestors(i) ==
    {j \in ElementEvents :
        j # i /\ IsPrefix(log[j].path, log[i].path) /\ log[j].scissor # None}

Inside(a, s) ==
    /\ s.x <= a.x /\ a.x + a.w <= s.x + s.w
    /\ s.y <= a.y /\ a.y + a.h <= s.y + s.h

\* the edges the intersection branch subtracts, for the converted crop a
\* and the scissor s in force
Edges(a, s) ==
    [l |-> Max2(a.x, s.x), r |-> Min2(AsU16(a.x + a.w), AsU16(s.x + s.w)),
     b |-> Max2(a.y, s.y), t |-> Min2(AsU16(a.y + a.h), AsU16(s.y + s.h))]

\* C30: under an ancestor with a scissor every element entered has a
\* scissor of zero area or one inside the ancestor's, and where a crop goes
\* through the intersection branch, r - l and t - b are not negative.
C30_ScissorNeverGrows ==
    Drawn =>
        \A i \in ElementEvents :
            /\ \A j \in Ancestors(i) :
                  /\ log[i].scissor # None
                  /\ \/ log[i].scissor[1].w = 0
                     \/ log[i].scissor[1].h = 0
                     \/ Inside(log[i].scissor[1], log[j].scissor[1])
            /\ (/\ ElementAt(root, log[i].path).props.crop # None
                /\ ParentScissor(log[i].path) # None) =>
                  LET a == convert_crop(
                               ElementAt(root, log[i].path).props.crop[1],
                               renderer.context)
                      s == ParentScissor(log[i].path)[1]
                  IN  ~no_intersection(a.x, a.y, a.w, a.h, s) =>
                          /\ Edges(a, s).l <= Edges(a, s).r
                          /\ Edges(a, s).b <= Edges(a, s).t

====
